---- MODULE Spec2Model ----
(***************************************************************************)
(* Video backends of the camera application: the OpenCV development       *)
(* backend (OpenCVBackend + CaptureWorker on a QThread) and the GStreamer  *)
(* backend (GStreamerBackend + its bus monitor thread).                    *)
(*                                                                         *)
(* The controller constructs exactly one backend per session, so a         *)
(* behaviour runs one of the two state machines; `backend` says which.     *)
(***************************************************************************)
EXTENDS Integers, Sequences, FiniteSets, TLC

(* ---------------------------------------------------------------- bounds *)
MaxCalls == 3        \* OpenCVBackend calls the UI thread makes in one behaviour
MaxGstCalls == 2     \* GStreamerBackend calls the UI thread makes in one behaviour
                     \* (one more in the behaviours of SpecGstLong)
MaxFrames == 1       \* frames the camera delivers in one behaviour
MaxMsgs == 1         \* messages the pipelines post on their buses in one behaviour
MaxDt == 300         \* longest span of a timestamp window, in clock ticks

(* ------------------------------------------------------- program constants *)
TsMaxLen == 120      \* deque(maxlen=120)
DefaultFps == 30     \* self._fps default / "fps if fps > 0 else 30"

FpsInputs == {0, 15}
\* An output path is its stem and its extension, os.path.splitext(path).
Paths == {[stem |-> "a", ext |-> ".mp4"], [stem |-> "b", ext |-> ".AVI"]}
\* The controller only ever asks for capture-<time>.mp4.
GstPaths == {[stem |-> "a", ext |-> ".mp4"]}
NoPath == [stem |-> "", ext |-> ""]

VARIABLES
  backend,        \* "dev" (OpenCVBackend) or "gst" (GStreamerBackend)
  \* ---- OpenCVBackend fields
  d_active,       \* self._active
  d_recording,    \* self._recording
  d_worker,       \* self._worker: 0 is None, else the CaptureWorker's number
  d_thread,       \* self._thread: 0 is None, else the QThread's number
  d_writer,       \* self._writer: 0 is None, else the VideoWriter's number
  d_record_path,  \* self._record_path
  d_fps,          \* self._fps
  d_ts,           \* self._ts, the arrival instants (arrival serial numbers)
  d_clock,        \* arrivals so far (the reading of time.perf_counter)
  \* ---- objects owned by the backend
  workers,        \* CaptureWorker i: position in run(), _running, the device handle
  threads,        \* QThread i: its life and whether quit() was requested
  encs,           \* VideoWriter i (opened by recording i): codec, state, frames written
  d_nrec,         \* recordings started so far
  d_queue,        \* events posted to the UI thread, in order
  \* ---- the UI thread
  d_pc,           \* "idle", or "stop_all_wait" inside self._thread.wait(1500)
  d_last,         \* outcome of the backend call that returned in the last step, else "none"
  d_errors,       \* messages delivered to the subscribed error callback
  d_calls,        \* backend calls made so far
  cam_frames,     \* frames read from the camera so far
  \* ---- GStreamerBackend fields
  g_pipeline,     \* self._pipeline: 0 is None, else the pipeline's number
  g_bus_thread,   \* self._bus_thread: 0 is None, else the monitor thread's number
  g_stop_bus,     \* self._stop_bus (threading.Event)
  g_eos_event,    \* self._eos_event (threading.Event)
  g_err_cb,       \* self._err_cb is set
  g_active,       \* self._active
  g_recording,    \* self._recording
  g_output_path,  \* self._output_path
  \* ---- objects owned by the backend
  pipes,          \* pipeline i: graph kind, state, EOS event sent, pending bus messages
  m_bus,          \* monitor thread i: number of the pipeline whose bus it polls (0: none yet)
  \* ---- threads: 0 is the UI thread, i > 0 the monitor started with pipeline i
  g_pcs,          \* position of each thread in the backend's code
  g_op,           \* the public call the UI thread is inside ("none" between calls)
  g_fin,          \* stop_recording in progress: how _send_eos_and_wait ended
  g_last,         \* outcome of the backend call that returned in the last step, else "none"
  g_errors,       \* messages passed to the registered error callback
  g_calls,        \* backend calls made so far
  g_msgs,         \* bus messages posted so far
  g_budget,       \* backend calls the UI thread makes in this behaviour
  \* ---- one call of OpenCVBackend._estimate_fps
  e_req,          \* the fps start_preview was called with
  e_ts,           \* self._ts at the call, in clock ticks
  e_out,          \* the value returned
  e_pc,           \* "ready" before the call, "done" after it
  \* ---- AppController (only in the behaviours of SpecCtl)
  c_pc,           \* position inside the handler in progress, "idle" between handlers
  c_previewing,   \* self.is_previewing
  c_recording,    \* self.is_recording
  c_last,         \* how the last handler that returned ended
  \* ---- one GstCaptureWorker and its run() (only in the behaviours of SpecGw)
  w_pc,           \* position of the worker thread inside run()
  w_prefer,       \* self.prefer_libcamera
  w_desc,         \* the source of the description _build_pipeline_desc returned
  w_pipeline,     \* self._pipeline: "none" is None, else the pipeline's state
  w_loop,         \* self._loop: "none" is None, "created", "running" or "quit"
  w_sigs,         \* the signals emitted so far, in order
  w_bus,          \* the messages on the pipeline's bus, not yet dispatched
  w_stops,        \* stop() calls made by the UI thread
  w_posted,       \* messages the pipeline has posted
  w_samples       \* samples the appsink has announced

devVars == <<d_active, d_recording, d_worker, d_thread, d_writer, d_record_path,
             d_fps, d_ts, d_clock, workers, threads, encs, d_nrec, d_queue,
             d_pc, d_last, d_errors, d_calls, cam_frames>>

gstVars == <<g_pipeline, g_bus_thread, g_stop_bus, g_eos_event, g_err_cb, g_active,
             g_recording, g_output_path, pipes, m_bus, g_pcs, g_op, g_fin, g_last,
             g_errors, g_calls, g_msgs, g_budget>>

estVars == <<e_req, e_ts, e_out, e_pc>>

ctlVars == <<c_pc, c_previewing, c_recording, c_last>>

gwVars == <<w_pc, w_prefer, w_desc, w_pipeline, w_loop, w_sigs, w_bus, w_stops,
            w_posted, w_samples>>

WorkerIds == 1..MaxCalls
RecIds == 1..MaxCalls

\* apis: the capture APIs run() has tried; sigs: the error and finished signals
\* it has emitted (a frameReady emission is the "frame" event it queues)
NewWorker_Subscribed == [pc |-> "none", running |-> FALSE, cap |-> "none",
              errsub |-> TRUE, framesub |-> TRUE, apis |-> <<>>, sigs |-> <<>>]

NewWorker == [pc |-> "none", running |-> FALSE, cap |-> "none",
              errsub |-> FALSE, framesub |-> FALSE, apis |-> <<>>, sigs |-> <<>>]
NewThread == [state |-> "none", quit |-> FALSE]
\* tried: the cv2.VideoWriter constructions of the last _open_writer_for_frame
\* wlog: the outcome of each write() call made on it (TRUE: written, FALSE: raised)
NewEnc == [state |-> "none", codec |-> "none", written |-> 0, tried |-> <<>>, wlog |-> <<>>]

InitCtl ==
  /\ c_pc = "idle"
  /\ c_previewing = FALSE
  /\ c_recording = FALSE
  /\ c_last = "none"

\* A step of the OpenCVBackend session leaves the other backend's state alone,
\* and the other way round.
InDev == backend = "dev" /\ UNCHANGED <<gstVars, estVars, gwVars, ctlVars>>

InGst == backend = "gst" /\ UNCHANGED <<devVars, estVars, gwVars, g_budget, ctlVars>>

(* ======================================================================= *)
(*                     OpenCVBackend + CaptureWorker                        *)
(* ======================================================================= *)

InitDevFields ==
  /\ d_active = FALSE
  /\ d_recording = FALSE
  /\ d_worker = 0
  /\ d_thread = 0
  /\ d_writer = 0
  /\ d_record_path = NoPath
  /\ d_fps = DefaultFps
  /\ d_ts = <<>>
  /\ d_clock = 0
  /\ workers = [i \in WorkerIds |-> NewWorker]
  /\ threads = [i \in WorkerIds |-> NewThread]
  /\ encs = [i \in RecIds |-> NewEnc]
  /\ d_nrec = 0
  /\ d_queue = <<>>
  /\ d_pc = "idle"
  /\ d_last = "none"
  /\ d_errors = <<>>
  /\ d_calls = 0
  /\ cam_frames = 0

\* Workers created so far; the next one gets the next number.
WorkersMade == Cardinality({i \in WorkerIds : workers[i].pc # "none"})

\* The UI thread makes one more backend call.
DevCall == d_calls < MaxCalls /\ d_calls' = d_calls + 1

\* start_preview without its "already active" test
DevStartPreviewBody_NoGuard(fps) ==
  LET n == WorkersMade + 1 IN
  /\ d_fps' = (IF fps > 0 THEN fps ELSE DefaultFps)
  /\ d_thread' = n
  /\ d_worker' = n
  /\ workers' = [workers EXCEPT ![n] = [NewWorker EXCEPT !.pc = "start"]]
  /\ threads' = [threads EXCEPT ![n] = [state |-> "running", quit |-> FALSE]]
  /\ d_active' = TRUE
  /\ d_last' = "start_preview:started"

\* --- OpenCVBackend.start_preview
DevStartPreviewBody(fps) ==
  IF d_active
  THEN /\ d_last' = "start_preview:already_active"
       /\ UNCHANGED <<d_active, d_worker, d_thread, d_fps, workers, threads>>
  ELSE LET n == WorkersMade + 1 IN
          /\ d_fps' = (IF fps > 0 THEN fps ELSE DefaultFps)
          /\ d_thread' = n
          /\ d_worker' = n
          /\ workers' = [workers EXCEPT ![n] = [NewWorker EXCEPT !.pc = "start"]]
          /\ threads' = [threads EXCEPT ![n] = [state |-> "running", quit |-> FALSE]]
          /\ d_active' = TRUE
          /\ d_last' = "start_preview:started"

DevStartPreview ==
  /\ InDev /\ d_pc = "idle"
  /\ DevCall
  /\ \E fps \in FpsInputs : DevStartPreviewBody(fps)
  /\ UNCHANGED <<cam_frames, backend, d_recording, d_writer, d_record_path, d_ts, d_clock,
                 encs, d_nrec, d_queue, d_pc, d_errors>>

\* --- OpenCVBackend.on_frame / on_error: connect to the current worker's signal.
\* A worker whose C++ object was already deleted (deleteLater) cannot be connected to.
DevSubscribeBody(field, name) ==
  IF d_worker = 0
  THEN /\ d_last' = name \o ":no_worker"
       /\ UNCHANGED workers
  ELSE IF workers[d_worker].pc = "deleted"
  THEN /\ d_last' = name \o ":raised"
       /\ UNCHANGED workers
  ELSE /\ d_last' = name \o ":connected"
       /\ workers' = [workers EXCEPT ![d_worker][field] = TRUE]

DevSubscribe(field, name) ==
  /\ InDev /\ d_pc = "idle"
  /\ DevCall
  /\ DevSubscribeBody(field, name)
  /\ UNCHANGED <<cam_frames, backend, d_active, d_recording, d_worker, d_thread, d_writer,
                 d_record_path, d_fps, d_ts, d_clock, threads, encs, d_nrec,
                 d_queue, d_pc, d_errors>>

DevOnError == DevSubscribe("errsub", "on_error")

DevOnFrame == DevSubscribe("framesub", "on_frame")

\* start_recording without its "Preview not active" test
DevStartRecordingBody_NoCheck(path) ==
  IF d_recording
  THEN /\ d_last' = "start_recording:already_recording"
       /\ UNCHANGED <<d_record_path, d_writer, d_recording, d_nrec>>
  ELSE /\ d_record_path' = path
       /\ d_writer' = 0
       /\ d_recording' = TRUE
       /\ d_nrec' = d_nrec + 1
       /\ d_last' = "start_recording:started"

\* start_recording without its "already recording" test
DevStartRecordingBody_Restart(path) ==
  IF ~d_active
  THEN /\ d_last' = "start_recording:Preview not active"
       /\ UNCHANGED <<d_record_path, d_writer, d_recording, d_nrec>>
  ELSE /\ d_record_path' = path
       /\ d_writer' = 0
       /\ d_recording' = TRUE
       /\ d_nrec' = d_nrec + 1
       /\ d_last' = "start_recording:started"

\* --- OpenCVBackend.start_recording
DevStartRecordingBody(path) ==
  IF ~d_active
  THEN /\ d_last' = "start_recording:Preview not active"
       /\ UNCHANGED <<d_record_path, d_writer, d_recording, d_nrec>>
  ELSE IF d_recording
  THEN /\ d_last' = "start_recording:already_recording"
       /\ UNCHANGED <<d_record_path, d_writer, d_recording, d_nrec>>
  ELSE /\ d_record_path' = path
       /\ d_writer' = 0
       /\ d_recording' = TRUE
       /\ d_nrec' = d_nrec + 1
       /\ d_last' = "start_recording:started"

DevStartRecording ==
  /\ InDev /\ d_pc = "idle"
  /\ DevCall
  /\ \E path \in Paths : DevStartRecordingBody(path)
  /\ UNCHANGED <<cam_frames, backend, d_active, d_worker, d_thread, d_fps, d_ts, d_clock,
                 workers, threads, encs, d_queue, d_pc, d_errors>>

\* stop_recording that leaves the flag as it was
StopRecRecording_Kept == d_recording

\* --- OpenCVBackend.stop_recording, as values (stop_all calls it first)
StopRecRecording == FALSE

StopRecWriter == IF d_recording THEN 0 ELSE d_writer

\* stop_recording that drops the writer without releasing it
StopRecEncs_NoRelease == encs

StopRecEncs ==
  IF d_recording /\ d_writer # 0
  THEN [encs EXCEPT ![d_writer].state = "released"]
  ELSE encs

DevStopRecording ==
  /\ InDev /\ d_pc = "idle"
  /\ DevCall
  /\ d_recording' = StopRecRecording
  /\ d_writer' = StopRecWriter
  /\ encs' = StopRecEncs
  /\ d_last' = (IF d_recording THEN "stop_recording:stopped" ELSE "stop_recording:noop")
  /\ UNCHANGED <<cam_frames, backend, d_active, d_worker, d_thread, d_record_path, d_fps, d_ts,
                 d_clock, workers, threads, d_nrec, d_queue, d_pc, d_errors>>

\* --- OpenCVBackend.stop_all, up to self._thread.wait(1500)
\* self._thread.quit() on a QThread already deleted by deleteLater raises
\* RuntimeError, and the three assignments after it are not reached.
DevStopAllCleared ==
  /\ d_worker' = 0
  /\ d_thread' = 0
  /\ d_active' = FALSE

DevStopAllBody ==
  /\ d_recording' = StopRecRecording
  /\ d_writer' = StopRecWriter
  /\ encs' = StopRecEncs
  /\ workers' = (IF d_worker # 0
                 THEN [workers EXCEPT ![d_worker].running = FALSE]
                 ELSE workers)
  /\ IF d_thread = 0
     THEN /\ DevStopAllCleared
          /\ d_last' = "stop_all:done"
          /\ UNCHANGED <<threads, d_pc>>
     ELSE IF threads[d_thread].state = "deleted"
     THEN /\ d_last' = "stop_all:raised"
          /\ UNCHANGED <<d_worker, d_thread, d_active, threads, d_pc>>
     ELSE /\ threads' = [threads EXCEPT ![d_thread].quit = TRUE]
          /\ d_pc' = "stop_all_wait"
          /\ d_last' = "stop_all:waiting"
          /\ UNCHANGED <<d_worker, d_thread, d_active>>

DevStopAll ==
  /\ InDev /\ d_pc = "idle"
  /\ DevCall
  /\ DevStopAllBody
  /\ UNCHANGED <<cam_frames, backend, d_record_path, d_fps, d_ts, d_clock, d_nrec, d_queue,
                 d_errors>>

\* --- stop_all, from the return of wait(1500): the thread finished or 1.5 s passed
DevStopAllReturnBody ==
  /\ \E timedOut \in BOOLEAN :
        /\ ~timedOut => threads[d_thread].state = "finished"
        /\ d_last' = (IF threads[d_thread].state = "finished"
                      THEN "stop_all:done" ELSE "stop_all:done_timeout")
  /\ DevStopAllCleared
  /\ d_pc' = "idle"

DevStopAllReturn ==
  /\ InDev /\ d_pc = "stop_all_wait"
  /\ DevStopAllReturnBody
  /\ UNCHANGED <<d_calls, cam_frames, backend, d_recording, d_writer, d_record_path, d_fps, d_ts, d_clock,
                 workers, threads, encs, d_nrec, d_queue, d_errors>>

(* ------------------------------------------------------ CaptureWorker.run *)

Event(kind, w, msg, ui) == [kind |-> kind, w |-> w, msg |-> msg, ui |-> ui]

\* error.emit(msg): one queued call per connected slot, none when nothing is connected
EmitError(q, w, msg) ==
  IF workers[w].errsub THEN Append(q, Event("error", w, msg, TRUE)) ELSE q

\* finished.emit(): thread.quit is queued to the UI thread, where the QThread lives
EmitFinished(q, w) == Append(q, Event("finished", w, "", FALSE))

\* run() that tries both capture APIs whatever the first one does
ApisTried_Both(dshow) == <<"CAP_DSHOW", "CAP_MSMF">>

\* the capture APIs tried: CAP_MSMF only "if not cap.isOpened()" after CAP_DSHOW
ApisTried(dshow) == IF dshow THEN <<"CAP_DSHOW">> ELSE <<"CAP_DSHOW", "CAP_MSMF">>

\* cv2.VideoCapture(index, CAP_DSHOW), then CAP_MSMF if that did not open
WorkerOpen(w) ==
  /\ InDev /\ workers[w].pc = "start"
  /\ \E dshow \in BOOLEAN, msmf \in BOOLEAN :
       IF dshow \/ msmf
       THEN /\ workers' = [workers EXCEPT ![w].pc = "opened",
                             ![w].cap = (IF dshow THEN "dshow" ELSE "msmf"),
                             ![w].apis = ApisTried(dshow)]
            /\ UNCHANGED d_queue
       ELSE /\ workers' = [workers EXCEPT ![w].pc = "done",
                             ![w].apis = ApisTried(dshow),
                             ![w].sigs = @ \o <<"error:Could not open camera device.",
                                                "finished">>]
            /\ d_queue' = EmitFinished(EmitError(d_queue, w, "Could not open camera device."), w)
  /\ UNCHANGED <<d_calls, cam_frames, backend, d_active, d_recording, d_worker, d_thread, d_writer,
                 d_record_path, d_fps, d_ts, d_clock, threads, encs, d_nrec, d_pc, d_errors>>
  /\ d_last' = "none"

\* cap.set(...) hints, then self._running = True
WorkerSetRunning(w) ==
  /\ InDev /\ workers[w].pc = "opened"
  /\ workers' = [workers EXCEPT ![w].pc = "loop", ![w].running = TRUE]
  /\ UNCHANGED <<d_calls, cam_frames, backend, d_active, d_recording, d_worker, d_thread, d_writer,
                 d_record_path, d_fps, d_ts, d_clock, threads, encs, d_nrec, d_queue,
                 d_pc, d_errors>>
  /\ d_last' = "none"

\* a loop that never tests the flag
LoopGoesOn_Always(w) == TRUE

\* the loop condition, self._running
LoopGoesOn(w) == workers[w].running

\* while self._running:
WorkerLoopTest(w) ==
  /\ InDev /\ workers[w].pc = "loop"
  /\ workers' = [workers EXCEPT ![w].pc = (IF LoopGoesOn(w) THEN "read" ELSE "release")]
  /\ UNCHANGED <<d_calls, cam_frames, backend, d_active, d_recording, d_worker, d_thread, d_writer,
                 d_record_path, d_fps, d_ts, d_clock, threads, encs, d_nrec, d_queue,
                 d_pc, d_errors>>
  /\ d_last' = "none"

\* a run() that goes back to the loop test after a failed read
AfterFailedRead_Retry == "loop"

\* "break" after the error of a failed read: on to cap.release()
AfterFailedRead == "release"

\* ok, frame = cap.read(); error and break, or frameReady.emit(frame);
\* the camera delivers at most n frames
WorkerReadUpTo(w, n) ==
  /\ InDev /\ workers[w].pc = "read"
  /\ \E ok \in BOOLEAN :
       IF ok
       THEN /\ cam_frames < n
            /\ cam_frames' = cam_frames + 1
            /\ workers' = [workers EXCEPT ![w].pc = "loop"]
            /\ d_queue' = Append(d_queue, Event("frame", w, "", FALSE))
       ELSE /\ workers' = [workers EXCEPT ![w].pc = AfterFailedRead,
                             ![w].sigs = Append(@, "error:Failed to read frame from camera.")]
            /\ UNCHANGED cam_frames
            /\ d_queue' = EmitError(d_queue, w, "Failed to read frame from camera.")
  /\ UNCHANGED <<d_calls, backend, d_active, d_recording, d_worker, d_thread, d_writer,
                 d_record_path, d_fps, d_ts, d_clock, threads, encs, d_nrec, d_pc, d_errors>>
  /\ d_last' = "none"

WorkerRead(w) == WorkerReadUpTo(w, MaxFrames)

\* cap.release(); self.finished.emit()
WorkerRelease(w) ==
  /\ InDev /\ workers[w].pc = "release"
  /\ workers' = [workers EXCEPT ![w].pc = "done", ![w].cap = "released",
                                ![w].sigs = Append(@, "finished")]
  /\ d_queue' = EmitFinished(d_queue, w)
  /\ UNCHANGED <<d_calls, cam_frames, backend, d_active, d_recording, d_worker, d_thread, d_writer,
                 d_record_path, d_fps, d_ts, d_clock, threads, encs, d_nrec, d_pc, d_errors>>
  /\ d_last' = "none"

\* A deleted QObject loses its signal connections; its _running flag and the
\* record of the APIs its run() tried go with the object.
Deleted(wk) ==
  [wk EXCEPT !.pc = "deleted", !.errsub = FALSE, !.framesub = FALSE,
             !.running = FALSE, !.apis = <<>>]

\* worker.finished -> worker.deleteLater: deleted by the thread's event loop after run()
WorkerDeleteLater(w) ==
  /\ InDev /\ workers[w].pc = "done"
  /\ threads[w].state = "running"
  /\ workers' = [workers EXCEPT ![w] = Deleted(@)]
  /\ UNCHANGED <<d_calls, cam_frames, backend, d_active, d_recording, d_worker, d_thread, d_writer,
                 d_record_path, d_fps, d_ts, d_clock, threads, encs, d_nrec, d_queue,
                 d_pc, d_errors>>
  /\ d_last' = "none"

\* The QThread's event loop exits once run() has returned and quit() was called;
\* a finishing thread delivers its pending deferred deletes.
ThreadFinish(w) ==
  /\ InDev /\ threads[w].state = "running" /\ threads[w].quit
  /\ workers[w].pc \in {"done", "deleted"}
  /\ threads' = [threads EXCEPT ![w].state = "finished"]
  /\ workers' = [workers EXCEPT ![w] = Deleted(@)]
  /\ UNCHANGED <<d_calls, cam_frames, backend, d_active, d_recording, d_worker, d_thread, d_writer,
                 d_record_path, d_fps, d_ts, d_clock, encs, d_nrec, d_queue, d_pc, d_errors>>
  /\ d_last' = "none"

\* thread.finished -> thread.deleteLater: deleted by the UI thread's event loop
ThreadDeleteLater(w) ==
  /\ InDev /\ d_pc = "idle"
  /\ threads[w].state = "finished"
  /\ threads' = [threads EXCEPT ![w].state = "deleted"]
  /\ UNCHANGED <<d_calls, cam_frames, backend, d_active, d_recording, d_worker, d_thread, d_writer,
                 d_record_path, d_fps, d_ts, d_clock, workers, encs, d_nrec, d_queue,
                 d_pc, d_errors>>
  /\ d_last' = "none"

(* --------------------------------------- slots run by the UI thread's loop *)

Lower(ext) == IF ext = ".MP4" THEN ".mp4" ELSE IF ext = ".AVI" THEN ".avi" ELSE ext

\* the .mp4 candidates in the opposite order
Candidates_Swapped(path) ==
  IF Lower(path.ext) = ".mp4" THEN <<"avc1", "mp4v">> ELSE <<"XVID", "MJPG">>

\* _open_writer_for_frame: the codec candidates for the path's extension
Candidates(path) ==
  IF Lower(path.ext) = ".mp4" THEN <<"mp4v", "avc1">> ELSE <<"XVID", "MJPG">>

\* an append on a deque without maxlen
TsAppend_Unbounded(ts, t) == Append(ts, t)

\* self._ts.append(...) on a deque(maxlen=120)
TsAppend(ts, t) ==
  IF Len(ts) >= TsMaxLen THEN Append(Tail(ts), t) ELSE Append(ts, t)

\* _open_writer_for_frame: number of the candidate that opens, 0 when none does
OpenedCandidate(opens) ==
  IF d_record_path = NoPath THEN 0
  ELSE IF opens[1] THEN 1
  ELSE IF opens[2] THEN 2
  ELSE 0

\* _open_writer_for_frame: "for cc in candidates", stopping at the first that opens
Attempts(opens) ==
  IF d_record_path = NoPath THEN <<>>
  ELSE LET c == Candidates(d_record_path) IN
       IF opens[1] THEN <<[cc |-> c[1], opened |-> TRUE]>>
       ELSE <<[cc |-> c[1], opened |-> FALSE], [cc |-> c[2], opened |-> opens[2]]>>

\* a frame handler that opens an encoder on every frame of a recording
LazyOpen_EveryFrame == d_recording

\* if self._recording and self._writer is None
LazyOpen == d_recording /\ d_writer = 0

\* a handler that gives the encoder up when a write raised
WriterAfterWrite_Drop(wr, writeOk) == IF writeOk THEN wr ELSE 0

\* try: self._writer.write(frame) / except: logged; _writer is left as it is
WriterAfterWrite(wr, writeOk) == wr

\* OpenCVBackend._on_frame_internal
OnFrameInternal(opens, writeOk) ==
  LET lazy == LazyOpen
      k == IF lazy THEN OpenedCandidate(opens) ELSE 0
      wr == IF lazy /\ k # 0 THEN d_nrec ELSE d_writer
      encs1 == IF lazy /\ k # 0
               THEN [encs EXCEPT ![d_nrec] = [state |-> "open",
                        codec |-> Candidates(d_record_path)[k], written |-> 0, wlog |-> <<>>,
                        tried |-> Attempts(opens)]]
               ELSE IF lazy
               THEN [encs EXCEPT ![d_nrec].tried = Attempts(opens)]
               ELSE encs
  IN /\ d_clock' = d_clock + 1
     /\ d_ts' = TsAppend(d_ts, d_clock + 1)
     /\ d_writer' = WriterAfterWrite(wr, writeOk)
     /\ encs' = IF d_recording /\ wr # 0
                THEN [encs1 EXCEPT ![wr].written = (IF writeOk THEN @ + 1 ELSE @),
                                   ![wr].wlog = Append(@, writeOk)]
                ELSE encs1

\* The UI thread's event loop delivers the next queued call.
DevDispatch ==
  /\ InDev /\ d_pc = "idle" /\ d_queue # <<>>
  /\ LET e == Head(d_queue) IN
     /\ d_queue' = Tail(d_queue)
     /\ IF e.kind = "frame"
        THEN /\ \E o1 \in BOOLEAN, o2 \in BOOLEAN, writeOk \in BOOLEAN :
                  OnFrameInternal(<<o1, o2>>, writeOk)
             /\ UNCHANGED <<threads, d_errors>>
        ELSE IF e.kind = "error"
        THEN /\ d_errors' = Append(d_errors, e.msg)
             /\ UNCHANGED <<d_clock, d_ts, d_writer, encs, threads>>
        ELSE /\ threads' = (IF threads[e.w].state = "running"
                            THEN [threads EXCEPT ![e.w].quit = TRUE]
                            ELSE threads)
             /\ UNCHANGED <<d_clock, d_ts, d_writer, encs, d_errors>>
  /\ UNCHANGED <<d_calls, cam_frames, backend, d_active, d_recording, d_worker, d_thread, d_record_path,
                 d_fps, workers, d_nrec, d_pc>>
  /\ d_last' = "none"

DevNext ==
  \/ DevStartPreview
  \/ DevOnError
  \/ DevOnFrame
  \/ DevStartRecording
  \/ DevStopRecording
  \/ DevStopAll
  \/ DevStopAllReturn
  \/ DevDispatch
  \/ \E w \in WorkerIds : WorkerOpen(w)
  \/ \E w \in WorkerIds : WorkerSetRunning(w)
  \/ \E w \in WorkerIds : WorkerLoopTest(w)
  \/ \E w \in WorkerIds : WorkerRead(w)
  \/ \E w \in WorkerIds : WorkerRelease(w)
  \/ \E w \in WorkerIds : WorkerDeleteLater(w)
  \/ \E w \in WorkerIds : ThreadFinish(w)
  \/ \E w \in WorkerIds : ThreadDeleteLater(w)

\* The same session with a camera that delivers one frame more.
DevNextLong ==
  \/ DevStartPreview
  \/ DevOnError
  \/ DevOnFrame
  \/ DevStartRecording
  \/ DevStopRecording
  \/ DevStopAll
  \/ DevStopAllReturn
  \/ DevDispatch
  \/ \E w \in WorkerIds : WorkerOpen(w)
  \/ \E w \in WorkerIds : WorkerSetRunning(w)
  \/ \E w \in WorkerIds : WorkerLoopTest(w)
  \/ \E w \in WorkerIds : WorkerReadUpTo(w, MaxFrames + 1)
  \/ \E w \in WorkerIds : WorkerRelease(w)
  \/ \E w \in WorkerIds : WorkerDeleteLater(w)
  \/ \E w \in WorkerIds : ThreadFinish(w)
  \/ \E w \in WorkerIds : ThreadDeleteLater(w)

(* ======================================================================= *)
(*                 GStreamerBackend + its bus monitor thread                *)
(* ======================================================================= *)
\* The caps fields (_w, _h, _fps, _device) only fill in the pipeline description
\* text; a description is represented by its kind, "preview" or "record".

PipeIds == 1..(MaxGstCalls + 1)
Ctx == 0..(MaxGstCalls + 1)
UI == 0
Msgs == {"ERROR", "WARNING", "EOS", "STATE_CHANGED"}
\* A monitor thread has ended: its loop ended ("done"), its stop_all returned
\* and it left the loop ("stopped_all"), or an exception ended it ("raised").
Terminated == {"done", "stopped_all", "raised"}

\* warned: the monitor logged a warning of this pipeline
NewPipe == [kind |-> "none", state |-> "none", eos |-> FALSE, eosmsg |-> FALSE, bus |-> <<>>,
            warned |-> FALSE]

InitGstFields ==
  /\ g_pipeline = 0
  /\ g_bus_thread = 0
  /\ g_stop_bus = FALSE
  /\ g_eos_event = FALSE
  /\ g_err_cb = FALSE
  /\ g_active = FALSE
  /\ g_recording = FALSE
  /\ g_output_path = NoPath
  /\ pipes = [i \in PipeIds |-> NewPipe]
  /\ m_bus = [i \in PipeIds |-> 0]
  /\ g_pcs = [c \in Ctx |-> IF c = UI THEN "idle" ELSE "none"]
  /\ g_op = "none"
  /\ g_fin = "none"
  /\ g_last = "none"
  /\ g_errors = <<>>
  /\ g_calls = 0
  /\ g_msgs = 0

PipesMade == Cardinality({i \in PipeIds : pipes[i].state # "none"})

GstCall == g_calls < g_budget /\ g_calls' = g_calls + 1

\* if self._err_cb: self._err_cb(msg)
Report(errs, msg) == IF g_err_cb THEN Append(errs, msg) ELSE errs

\* pipeline.set_state(Gst.State.NULL): stopped, and its bus flushed
SetNull(ps, p) == [ps EXCEPT ![p].state = "NULL", ![p].bus = <<>>]

\* --- GStreamerBackend.on_error
GstOnErrorBody ==
  /\ g_err_cb' = TRUE
  /\ g_last' = "on_error:set"

GstOnError ==
  /\ InGst /\ g_pcs[UI] = "idle"
  /\ GstCall
  /\ GstOnErrorBody
  /\ UNCHANGED <<backend, g_pipeline, g_bus_thread, g_stop_bus, g_eos_event, g_active,
                 g_recording, g_output_path, pipes, m_bus, g_pcs, g_op, g_fin, g_errors,
                 g_msgs>>

\* The UI thread's call op sets the stop flag and is at the join of the teardown.
GstEnter(op) ==
  /\ g_op' = op
  /\ g_stop_bus' = TRUE
  /\ g_pcs' = [g_pcs EXCEPT ![UI] = "td_join"]
  /\ g_last' = "none"

\* --- start_preview: enters _start_pipeline(preview_only=True), up to the join
GstStartPreview ==
  /\ InGst /\ g_pcs[UI] = "idle"
  /\ GstCall
  /\ GstEnter("start_preview")
  /\ UNCHANGED <<backend, g_pipeline, g_bus_thread, g_eos_event, g_err_cb, g_active,
                 g_recording, g_output_path, pipes, m_bus, g_fin, g_errors, g_msgs>>

\* --- start_recording: stores the path, enters _start_pipeline(preview_only=False)
GstStartRecordingBody ==
  /\ \E path \in GstPaths : g_output_path' = path
  /\ GstEnter("start_recording")

GstStartRecording ==
  /\ InGst /\ g_pcs[UI] = "idle"
  /\ GstCall
  /\ GstStartRecordingBody
  /\ UNCHANGED <<backend, g_pipeline, g_bus_thread, g_eos_event, g_err_cb, g_active,
                 g_recording, pipes, m_bus, g_fin, g_errors, g_msgs>>

\* stop_recording without its "if not self._recording: return"
GstStopRecIsNoop_Never == FALSE

\* if not self._recording: return
GstStopRecIsNoop == ~g_recording

\* --- stop_recording, up to the wait in _send_eos_and_wait (or, when there is
\* nothing to wait for, up to the join in _start_pipeline)
GstStopRecordingBody ==
  IF GstStopRecIsNoop
  THEN /\ g_last' = "stop_recording:noop"
       /\ UNCHANGED <<g_op, g_fin, g_pcs, g_eos_event, g_stop_bus, pipes>>
  ELSE /\ g_last' = "none"
       /\ g_op' = "stop_recording"
       /\ IF g_pipeline = 0
          THEN /\ g_fin' = "no_pipeline"
               /\ g_stop_bus' = TRUE
               /\ g_pcs' = [g_pcs EXCEPT ![UI] = "td_join"]
               /\ UNCHANGED <<g_eos_event, pipes>>
          ELSE /\ g_eos_event' = FALSE
               /\ \E ok \in BOOLEAN :
                    IF ok
                    THEN /\ pipes' = [pipes EXCEPT ![g_pipeline].eos = TRUE]
                         /\ g_fin' = "eos_sent"
                         /\ g_pcs' = [g_pcs EXCEPT ![UI] = "eos_wait"]
                         /\ UNCHANGED g_stop_bus
                    ELSE /\ pipes' = SetNull(pipes, g_pipeline)
                         /\ g_fin' = "send_failed"
                         /\ g_stop_bus' = TRUE
                         /\ g_pcs' = [g_pcs EXCEPT ![UI] = "td_join"]

GstStopRecording ==
  /\ InGst /\ g_pcs[UI] = "idle"
  /\ GstCall
  /\ GstStopRecordingBody
  /\ UNCHANGED <<backend, g_pipeline, g_bus_thread, g_err_cb, g_active, g_recording,
                 g_output_path, m_bus, g_errors, g_msgs>>

\* A call of the UI thread ends with an exception: the backend is left as it is.
UiRaise ==
  /\ g_pcs' = [g_pcs EXCEPT ![UI] = "idle"]
  /\ g_op' = "none"
  /\ g_fin' = "none"
  /\ g_last' = g_op \o ":raised"

\* The call that ended in the last step ended with an exception.
UiRaisedNow ==
  g_last \in {"start_preview:raised", "start_recording:raised",
              "stop_recording:raised", "stop_all:raised"}

\* --- _send_eos_and_wait from the return of self._eos_event.wait(timeout): the
\* event was set or 4 s passed; the pipeline is set to NULL and detached, and
\* stop_recording goes on into _start_pipeline(preview_only=True).
GstEosWaitReturn ==
  /\ InGst /\ g_pcs[UI] = "eos_wait"
  /\ \E timedOut \in BOOLEAN :
       /\ ~timedOut => g_eos_event
       /\ IF g_pipeline = 0
          THEN /\ UiRaise
               /\ UNCHANGED <<pipes, g_pipeline, g_stop_bus>>
          ELSE /\ pipes' = SetNull(pipes, g_pipeline)
               /\ g_pipeline' = 0
               /\ g_stop_bus' = TRUE
               /\ g_fin' = (IF g_eos_event THEN "eos_arrived" ELSE "timeout")
               /\ g_pcs' = [g_pcs EXCEPT ![UI] = "td_join"]
               /\ g_last' = "none"
               /\ UNCHANGED g_op
  /\ UNCHANGED <<backend, g_bus_thread, g_eos_event, g_err_cb, g_active, g_recording,
                 g_output_path, m_bus, g_errors, g_calls, g_msgs>>

\* --- stop_all, up to the join
GstStopAll ==
  /\ InGst /\ g_pcs[UI] = "idle"
  /\ GstCall
  /\ GstEnter("stop_all")
  /\ UNCHANGED <<backend, g_pipeline, g_bus_thread, g_eos_event, g_err_cb, g_active,
                 g_recording, g_output_path, pipes, m_bus, g_fin, g_errors, g_msgs>>

(* ---- the teardown shared by stop_all and _start_pipeline, run by thread c *)

\* where thread c goes after the teardown
AfterTeardown(c) == IF c = UI /\ g_op # "stop_all" THEN "sp_clear" ELSE "sa_fields"

\* join(timeout=1.0) against a monitor that polls every 200 ms: the monitor sees
\* the stop flag in time unless it is inside its ERROR branch (the error
\* callback, then stop_all), which has no time bound, or the flag has been
\* cleared again (_start_pipeline line 96) and the monitor polls on.
JoinMayTimeOut(t) ==
  \/ g_pcs[t] \in {"sa_begin", "td_join", "td_pipe", "td_null", "td_detach", "sa_fields"}
  \/ ~g_stop_bus /\ g_pcs[t] \in {"start", "loop", "pop"}

\* if self._bus_thread: self._bus_thread.join(timeout=1.0); self._bus_thread = None
\* Thread.join raises RuntimeError when the thread joins itself.
TdJoin(c) ==
  /\ InGst /\ g_pcs[c] = "td_join"
  /\ IF g_bus_thread = 0
     THEN /\ g_pcs' = [g_pcs EXCEPT ![c] = "td_pipe"]
          /\ UNCHANGED g_bus_thread
     ELSE IF g_bus_thread = c
     THEN /\ g_pcs' = [g_pcs EXCEPT ![c] = "raised"]
          /\ UNCHANGED g_bus_thread
     ELSE /\ g_pcs[g_bus_thread] \in Terminated \/ JoinMayTimeOut(g_bus_thread)
          /\ g_bus_thread' = 0
          /\ g_pcs' = [g_pcs EXCEPT ![c] = "td_pipe"]
  /\ g_last' = "none"
  /\ UNCHANGED <<backend, g_pipeline, g_stop_bus, g_eos_event, g_err_cb, g_active,
                 g_recording, g_output_path, pipes, m_bus, g_op, g_fin, g_errors,
                 g_calls, g_msgs>>

\* if self._pipeline:
TdPipe(c) ==
  /\ InGst /\ g_pcs[c] = "td_pipe"
  /\ g_pcs' = [g_pcs EXCEPT ![c] = IF g_pipeline # 0 THEN "td_null" ELSE AfterTeardown(c)]
  /\ g_last' = "none"
  /\ UNCHANGED <<backend, g_pipeline, g_bus_thread, g_stop_bus, g_eos_event, g_err_cb,
                 g_active, g_recording, g_output_path, pipes, m_bus, g_op, g_fin,
                 g_errors, g_calls, g_msgs>>

\* self._pipeline.set_state(Gst.State.NULL)
\* The attribute is read again: None by now means AttributeError.
TdNull(c) ==
  /\ InGst /\ g_pcs[c] = "td_null"
  /\ IF g_pipeline = 0
     THEN /\ IF c = UI
             THEN UiRaise
             ELSE /\ g_pcs' = [g_pcs EXCEPT ![c] = "raised"]
                  /\ g_last' = "none"
                  /\ UNCHANGED <<g_op, g_fin>>
          /\ UNCHANGED <<pipes, g_pipeline>>
     ELSE /\ pipes' = SetNull(pipes, g_pipeline)
          /\ g_pcs' = [g_pcs EXCEPT ![c] = "td_detach"]
          /\ g_last' = "none"
          /\ UNCHANGED <<g_op, g_fin, g_pipeline>>
  /\ UNCHANGED <<backend, g_bus_thread, g_stop_bus, g_eos_event, g_err_cb, g_active,
                 g_recording, g_output_path, m_bus, g_errors, g_calls, g_msgs>>

\* self._pipeline = None: whatever pipeline is attached by now is dropped
TdDetach(c) ==
  /\ InGst /\ g_pcs[c] = "td_detach"
  /\ g_pipeline' = 0
  /\ g_pcs' = [g_pcs EXCEPT ![c] = AfterTeardown(c)]
  /\ g_last' = "none"
  /\ UNCHANGED <<backend, g_bus_thread, g_stop_bus, g_eos_event, g_err_cb, g_active,
                 g_recording, g_output_path, pipes, m_bus, g_op, g_fin, g_errors,
                 g_calls, g_msgs>>

\* stop_all: the four assignments after the teardown
SaFields(c) ==
  /\ InGst /\ g_pcs[c] = "sa_fields"
  /\ g_active' = FALSE
  /\ g_recording' = FALSE
  /\ g_output_path' = NoPath
  /\ g_eos_event' = FALSE
  /\ IF c = UI
     THEN /\ g_pcs' = [g_pcs EXCEPT ![c] = "idle"]
          /\ g_op' = "none"
          /\ g_last' = "stop_all:done"
     ELSE /\ g_pcs' = [g_pcs EXCEPT ![c] = "stopped_all"]
          /\ g_last' = "none"
          /\ UNCHANGED g_op
  /\ UNCHANGED <<backend, g_pipeline, g_bus_thread, g_stop_bus, g_err_cb, pipes, m_bus,
                 g_fin, g_errors, g_calls, g_msgs>>

(* ------------------------------------- _start_pipeline after the teardown *)

\* self._eos_event.clear(); self._stop_bus.clear()
SpClear ==
  /\ InGst /\ g_pcs[UI] = "sp_clear"
  /\ g_eos_event' = FALSE
  /\ g_stop_bus' = FALSE
  /\ g_pcs' = [g_pcs EXCEPT ![UI] = "sp_build"]
  /\ g_last' = "none"
  /\ UNCHANGED <<backend, g_pipeline, g_bus_thread, g_err_cb, g_active, g_recording,
                 g_output_path, pipes, m_bus, g_op, g_fin, g_errors, g_calls, g_msgs>>

\* How the call ended; for stop_recording, with how the finalization went.
Outcome(how) ==
  IF g_op = "stop_recording" THEN g_op \o ":" \o how \o ":" \o g_fin
  ELSE g_op \o ":" \o how

\* Gst.parse_launch, set_state(PLAYING) and the monitor thread; _start_pipeline
\* returns, with g_fin telling how it went
SpBuild ==
  /\ InGst /\ g_pcs[UI] = "sp_build"
  /\ \E parseOk \in BOOLEAN, playOk \in BOOLEAN :
       LET n == PipesMade + 1
           kind == IF g_op = "start_recording" THEN "record" ELSE "preview"
       IN IF ~parseOk
          THEN /\ g_errors' = Report(g_errors, "Failed to parse pipeline")
               /\ g_fin' = Outcome("parse_failed")
               /\ g_pcs' = [g_pcs EXCEPT ![UI] = "tail"]
               /\ UNCHANGED <<pipes, g_pipeline, g_bus_thread, g_active>>
          ELSE IF ~playOk
          THEN /\ g_errors' = Report(g_errors, "Failed to set pipeline PLAYING.")
               /\ pipes' = [pipes EXCEPT ![n] = [NewPipe EXCEPT !.kind = kind, !.state = "NULL"]]
               /\ g_pipeline' = 0
               /\ g_active' = FALSE
               /\ g_fin' = Outcome("play_failed")
               /\ g_pcs' = [g_pcs EXCEPT ![UI] = "tail"]
               /\ UNCHANGED g_bus_thread
          ELSE /\ pipes' = [pipes EXCEPT ![n] = [NewPipe EXCEPT !.kind = kind, !.state = "PLAYING"]]
               /\ g_pipeline' = n
               /\ g_bus_thread' = n
               /\ g_active' = TRUE
               /\ g_fin' = Outcome("started")
               /\ g_pcs' = [g_pcs EXCEPT ![UI] = "tail", ![n] = "start"]
               /\ UNCHANGED g_errors
  /\ g_last' = "none"
  /\ UNCHANGED <<backend, g_stop_bus, g_eos_event, g_err_cb, g_recording, g_output_path,
                 m_bus, g_op, g_calls, g_msgs>>

\* stop_recording that forgets self._recording = False
RecordingAfter_Forgot(op) == IF op = "start_recording" THEN TRUE ELSE g_recording

\* What the public call does after _start_pipeline has returned.
\* start_recording: self._recording = True
\* stop_recording: self._recording = False; self._output_path = None
RecordingAfter(op) ==
  IF op = "start_recording" THEN TRUE
  ELSE IF op = "stop_recording" THEN FALSE
  ELSE g_recording

OutputPathAfter(op) == IF op = "stop_recording" THEN NoPath ELSE g_output_path

\* The rest of start_preview / start_recording / stop_recording; the call returns.
GstTail ==
  /\ InGst /\ g_pcs[UI] = "tail"
  /\ g_recording' = RecordingAfter(g_op)
  /\ g_output_path' = OutputPathAfter(g_op)
  /\ g_pcs' = [g_pcs EXCEPT ![UI] = "idle"]
  /\ g_op' = "none"
  /\ g_fin' = "none"
  /\ g_last' = g_fin
  /\ UNCHANGED <<backend, g_pipeline, g_bus_thread, g_stop_bus, g_eos_event, g_err_cb,
                 g_active, pipes, m_bus, g_errors, g_calls, g_msgs>>

(* --------------------------------------------------- _bus_watch, thread t *)

\* if not self._pipeline: return;  bus = self._pipeline.get_bus()
MonStart(t) ==
  /\ InGst /\ g_pcs[t] = "start"
  /\ IF g_pipeline = 0
     THEN /\ g_pcs' = [g_pcs EXCEPT ![t] = "done"]
          /\ UNCHANGED m_bus
     ELSE /\ m_bus' = [m_bus EXCEPT ![t] = g_pipeline]
          /\ g_pcs' = [g_pcs EXCEPT ![t] = "loop"]
  /\ g_last' = "none"
  /\ UNCHANGED <<backend, g_pipeline, g_bus_thread, g_stop_bus, g_eos_event, g_err_cb,
                 g_active, g_recording, g_output_path, pipes, g_op, g_fin, g_errors,
                 g_calls, g_msgs>>

\* while not self._stop_bus.is_set():
MonLoop(t) ==
  /\ InGst /\ g_pcs[t] = "loop"
  /\ g_pcs' = [g_pcs EXCEPT ![t] = IF g_stop_bus THEN "done" ELSE "pop"]
  /\ g_last' = "none"
  /\ UNCHANGED <<backend, g_pipeline, g_bus_thread, g_stop_bus, g_eos_event, g_err_cb,
                 g_active, g_recording, g_output_path, pipes, m_bus, g_op, g_fin,
                 g_errors, g_calls, g_msgs>>

\* a monitor that treats a warning like an error
MonAfter_WarningFatal(m) ==
  IF m \in {"ERROR", "WARNING"} THEN "sa_begin"
  ELSE IF m = "EOS" THEN "done"
  ELSE "loop"

\* Where the monitor goes after handling message m.
MonAfter(m) ==
  IF m = "ERROR" THEN "sa_begin"
  ELSE IF m = "EOS" THEN "done"
  ELSE "loop"

\* msg = bus.timed_pop_filtered(200 ms, ...) and the branch on its type
MonPop(t) ==
  /\ InGst /\ g_pcs[t] = "pop"
  /\ LET b == m_bus[t] IN
     IF pipes[b].bus = <<>>
     THEN /\ g_pcs' = [g_pcs EXCEPT ![t] = "loop"]
          /\ UNCHANGED <<pipes, g_errors, g_eos_event>>
     ELSE LET m == Head(pipes[b].bus) IN
          /\ pipes' = [pipes EXCEPT ![b].bus = Tail(@),
                                    ![b].warned = (@ \/ m = "WARNING")]
          /\ g_errors' = (IF m = "ERROR" THEN Report(g_errors, "GStreamer ERROR") ELSE g_errors)
          /\ g_eos_event' = (IF m = "EOS" THEN TRUE ELSE g_eos_event)
          /\ g_pcs' = [g_pcs EXCEPT ![t] = MonAfter(m)]
  /\ g_last' = "none"
  /\ UNCHANGED <<backend, g_pipeline, g_bus_thread, g_stop_bus, g_err_cb, g_active,
                 g_recording, g_output_path, m_bus, g_op, g_fin, g_calls, g_msgs>>

\* self.stop_all() called by the monitor: self._stop_bus.set()
MonStopAll(t) ==
  /\ InGst /\ g_pcs[t] = "sa_begin"
  /\ g_stop_bus' = TRUE
  /\ g_pcs' = [g_pcs EXCEPT ![t] = "td_join"]
  /\ g_last' = "none"
  /\ UNCHANGED <<backend, g_pipeline, g_bus_thread, g_eos_event, g_err_cb, g_active,
                 g_recording, g_output_path, pipes, m_bus, g_op, g_fin, g_errors,
                 g_calls, g_msgs>>

(* ------------------------------------------------ the running pipelines *)

\* A PLAYING pipeline posts a message on its bus; end-of-stream only after an
\* EOS event was sent through it, and once.
GstPost(p, m) ==
  /\ InGst /\ pipes[p].state = "PLAYING"
  /\ g_msgs < MaxMsgs
  /\ m = "EOS" => pipes[p].eos /\ ~pipes[p].eosmsg
  /\ pipes' = [pipes EXCEPT ![p].bus = Append(@, m),
                            ![p].eosmsg = (@ \/ m = "EOS")]
  /\ g_msgs' = g_msgs + 1
  /\ g_last' = "none"
  /\ UNCHANGED <<backend, g_pipeline, g_bus_thread, g_stop_bus, g_eos_event, g_err_cb,
                 g_active, g_recording, g_output_path, m_bus, g_pcs, g_op, g_fin,
                 g_errors, g_calls>>

GstNext ==
  \/ GstOnError
  \/ GstStartPreview
  \/ GstStartRecording
  \/ GstStopRecording
  \/ GstEosWaitReturn
  \/ GstStopAll
  \/ SpClear
  \/ SpBuild
  \/ GstTail
  \/ \E c \in Ctx : TdJoin(c)
  \/ \E c \in Ctx : TdPipe(c)
  \/ \E c \in Ctx : TdNull(c)
  \/ \E c \in Ctx : TdDetach(c)
  \/ \E c \in Ctx : SaFields(c)
  \/ \E t \in PipeIds : MonStart(t)
  \/ \E t \in PipeIds : MonLoop(t)
  \/ \E t \in PipeIds : MonPop(t)
  \/ \E t \in PipeIds : MonStopAll(t)
  \/ \E p \in PipeIds, m \in Msgs : GstPost(p, m)

(* ======================================================================= *)
(*                       OpenCVBackend._estimate_fps                        *)
(* ======================================================================= *)
\* time.perf_counter() readings are held in ticks, TicksPerSec to the second.

TicksPerSec == 10
MinSamples == 15     \* if len(self._ts) >= 15
SnapTol == 2         \* abs(fps - target) < 2.0

EstReqs == {-1, 0, 1, 15, 24}
EstCounts == {0, 1, 2, 14, 15, 16, TsMaxLen}
EstStarts == {0, 7}

Abs(x) == IF x < 0 THEN 0 - x ELSE x

Max(a, b) == IF a >= b THEN a ELSE b

\* self._fps = fps if fps > 0 else 30
StoredFps(req) == IF req > 0 THEN req ELSE DefaultFps

\* n timestamps from t0 to t0 + dt, evenly spread
Window(n, t0, dt) ==
  [i \in 1..n |-> IF i = 1 THEN t0 ELSE t0 + (dt * (i - 1)) \div (n - 1)]

\* the targets in ascending order
Canonical_Ascending == <<10, 12, 15, 20, 24, 25, 30>>

\* for target in (30, 25, 24, 20, 15, 12, 10)
Canonical == <<30, 25, 24, 20, 15, 12, 10>>

\* round(num / den) as Python 3 rounds: to the nearest integer, a tie to the even one
RoundHalfEven(num, den) ==
  LET q == num \div den
      r == num % den
  IN IF 2 * r < den THEN q
     ELSE IF 2 * r > den THEN q + 1
     ELSE IF q % 2 = 0 THEN q ELSE q + 1

\* the loop over the targets from the i-th on, then max(1, int(round(fps)));
\* fps is num / den
RECURSIVE SnapFrom(_, _, _)
SnapFrom(i, num, den) ==
  IF i > Len(Canonical) THEN Max(1, RoundHalfEven(num, den))
  ELSE IF Abs(num - Canonical[i] * den) < SnapTol * den THEN Canonical[i]
  ELSE SnapFrom(i + 1, num, den)

\* _estimate_fps without the test on the number of samples
EstimateFps_NoMin(ts, fps) ==
  IF Len(ts) >= 1 /\ ts[Len(ts)] - ts[1] > 0
  THEN SnapFrom(1, (Len(ts) - 1) * TicksPerSec, ts[Len(ts)] - ts[1])
  ELSE Max(1, fps)

\* OpenCVBackend._estimate_fps
EstimateFps(ts, fps) ==
  IF Len(ts) >= MinSamples /\ ts[Len(ts)] - ts[1] > 0
  THEN SnapFrom(1, (Len(ts) - 1) * TicksPerSec, ts[Len(ts)] - ts[1])
  ELSE Max(1, fps)

InitEstIdle == e_req = 0 /\ e_ts = <<>> /\ e_out = 0 /\ e_pc = "ready"

InitEstInputs ==
  /\ e_req \in EstReqs
  /\ e_ts \in {Window(n, t0, dt) : n \in EstCounts, t0 \in EstStarts, dt \in 0..MaxDt}
  /\ e_out = 0
  /\ e_pc = "ready"

\* fps_guess = self._estimate_fps()
EstimateCall ==
  /\ backend = "dev" /\ e_pc = "ready"
  /\ e_out' = EstimateFps(e_ts, StoredFps(e_req))
  /\ e_pc' = "done"
  /\ UNCHANGED <<backend, devVars, gstVars, ctlVars, gwVars, e_req, e_ts>>

EstNext == EstimateCall

(* ======================================================================= *)
(*            AppController driving the session of its first backend         *)
(* ======================================================================= *)
\* The handlers run on the UI thread. on_start_preview builds the backend;
\* the behaviours followed here are those of the first backend it builds (a
\* later on_start_preview with is_previewing false would build another one).
\* The messages passed to AppController._on_error are d_errors / g_errors.

\* The UI thread is between two events of its loop.
UiIdle ==
  /\ c_pc = "idle"
  /\ backend = "dev" => d_pc = "idle"
  /\ backend = "gst" => g_pcs[UI] = "idle"

\* --- on_start_preview, lines 66-94: no preview yet, the backend is built
CtlConstruct ==
  /\ backend = "none" /\ UiIdle /\ ~c_previewing
  /\ backend' \in {"dev", "gst"}
  /\ c_pc' = "sp_start"
  /\ UNCHANGED <<devVars, gstVars, estVars, gwVars, c_previewing, c_recording, c_last>>

\* --- on_start_preview, lines 67-69: "Preview already running."
CtlStartPreviewRejected ==
  /\ backend # "none" /\ UiIdle /\ c_previewing
  /\ IF backend = "dev"
     THEN /\ DevCall /\ d_last' = "none"
          /\ UNCHANGED <<g_calls, g_last>>
     ELSE /\ GstCall /\ g_last' = "none"
          /\ UNCHANGED <<d_calls, d_last>>
  /\ c_last' = "start_preview:already_running"
  /\ UNCHANGED <<backend, estVars, gwVars, c_pc, c_previewing, c_recording>>
  /\ UNCHANGED <<d_active, d_recording, d_worker, d_thread, d_writer, d_record_path,
                 d_fps, d_ts, d_clock, workers, threads, encs, d_nrec, d_queue,
                 d_pc, d_errors, cam_frames>>
  /\ UNCHANGED <<g_pipeline, g_bus_thread, g_stop_bus, g_eos_event, g_err_cb, g_active,
                 g_recording, g_output_path, pipes, m_bus, g_pcs, g_op, g_fin,
                 g_errors, g_msgs, g_budget>>

(* ------------------------------------------------- over an OpenCVBackend *)

\* the except branch of on_start_preview (lines 104-107): is_previewing stays false
CtlSpFailed ==
  /\ c_pc' = "idle"
  /\ c_last' = "start_preview:failed"
  /\ UNCHANGED <<c_previewing, c_recording>>

\* --- on_start_preview, line 98: self.backend.start_preview((w, h), fps)
CtlDevStartPreview ==
  /\ backend = "dev" /\ c_pc = "sp_start" /\ d_pc = "idle"
  /\ DevCall
  /\ \E fps \in FpsInputs : DevStartPreviewBody(fps)
  /\ d_pc' = "handler"
  /\ c_pc' = "sp_on_error"
  /\ UNCHANGED <<cam_frames, backend, d_recording, d_writer, d_record_path, d_ts, d_clock,
                 encs, d_nrec, d_queue, d_errors>>
  /\ UNCHANGED <<gstVars, estVars, gwVars, c_previewing, c_recording, c_last>>

\* --- on_start_preview, line 100: self.backend.on_error(self._on_error)
CtlDevOnError ==
  /\ backend = "dev" /\ c_pc = "sp_on_error"
  /\ DevSubscribeBody("errsub", "on_error")
  /\ IF workers[d_worker].pc = "deleted"
     THEN CtlSpFailed /\ d_pc' = "idle"
     ELSE /\ c_pc' = "sp_on_frame"
          /\ UNCHANGED <<d_pc, c_previewing, c_recording, c_last>>
  /\ UNCHANGED <<d_calls, cam_frames, backend, d_active, d_recording, d_worker, d_thread,
                 d_writer, d_record_path, d_fps, d_ts, d_clock, threads, encs, d_nrec,
                 d_queue, d_errors>>
  /\ UNCHANGED <<gstVars, estVars, gwVars>>

\* --- on_start_preview, lines 101-125: self.backend.on_frame(self._on_frame),
\* then self.is_previewing = True
CtlDevOnFrame ==
  /\ backend = "dev" /\ c_pc = "sp_on_frame"
  /\ DevSubscribeBody("framesub", "on_frame")
  /\ IF workers[d_worker].pc = "deleted"
     THEN CtlSpFailed
     ELSE /\ c_pc' = "idle"
          /\ c_previewing' = TRUE
          /\ c_last' = "start_preview:started"
          /\ UNCHANGED c_recording
  /\ d_pc' = "idle"
  /\ UNCHANGED <<d_calls, cam_frames, backend, d_active, d_recording, d_worker, d_thread,
                 d_writer, d_record_path, d_fps, d_ts, d_clock, threads, encs, d_nrec,
                 d_queue, d_errors>>
  /\ UNCHANGED <<gstVars, estVars, gwVars>>

\* --- on_toggle_recording over an OpenCVBackend; a RuntimeError of
\* start_recording is caught (lines 145-147) and is_recording stays false
CtlDevToggle ==
  /\ backend = "dev" /\ UiIdle
  /\ DevCall
  /\ IF ~c_previewing
     THEN /\ c_last' = "toggle:start_preview_first"
          /\ d_last' = "none"
          /\ UNCHANGED <<c_recording, d_recording, d_writer, d_record_path, d_nrec, encs>>
     ELSE IF ~c_recording
     THEN /\ \E path \in GstPaths : DevStartRecordingBody(path)
          /\ c_recording' = d_active
          /\ c_last' = (IF d_active THEN "toggle:recording" ELSE "toggle:start_failed")
          /\ UNCHANGED encs
     ELSE /\ d_recording' = StopRecRecording
          /\ d_writer' = StopRecWriter
          /\ encs' = StopRecEncs
          /\ d_last' = (IF d_recording THEN "stop_recording:stopped" ELSE "stop_recording:noop")
          /\ c_recording' = FALSE
          /\ c_last' = "toggle:stopped"
          /\ UNCHANGED <<d_record_path, d_nrec>>
  /\ UNCHANGED <<cam_frames, backend, d_active, d_worker, d_thread, d_fps, d_ts, d_clock,
                 workers, threads, d_queue, d_pc, d_errors>>
  /\ UNCHANGED <<gstVars, estVars, gwVars, c_pc, c_previewing>>

\* on_stop_all after self.backend.stop_all() has returned (lines 166-173)
CtlStopped ==
  /\ c_pc' = "idle"
  /\ c_previewing' = FALSE
  /\ c_recording' = FALSE
  /\ c_last' = "stop_all:stopped"

\* on_stop_all ended by an exception of stop_all: the flags are not reached
CtlStopAllRaised ==
  /\ c_pc' = "idle"
  /\ c_last' = "stop_all:raised"
  /\ UNCHANGED <<c_previewing, c_recording>>

\* --- on_stop_all over an OpenCVBackend, up to the return of stop_all or to
\* its self._thread.wait(1500)
CtlDevStopAll ==
  /\ backend = "dev" /\ UiIdle
  /\ DevCall
  /\ DevStopAllBody
  /\ IF d_thread = 0 THEN CtlStopped
     ELSE IF threads[d_thread].state = "deleted" THEN CtlStopAllRaised
     ELSE /\ c_pc' = "sa_wait"
          /\ UNCHANGED <<c_previewing, c_recording, c_last>>
  /\ UNCHANGED <<cam_frames, backend, d_record_path, d_fps, d_ts, d_clock, d_nrec, d_queue,
                 d_errors>>
  /\ UNCHANGED <<gstVars, estVars, gwVars>>

\* --- on_stop_all over an OpenCVBackend, from the return of wait(1500)
CtlDevStopAllReturn ==
  /\ backend = "dev" /\ c_pc = "sa_wait" /\ d_pc = "stop_all_wait"
  /\ DevStopAllReturnBody
  /\ CtlStopped
  /\ UNCHANGED <<d_calls, cam_frames, backend, d_recording, d_writer, d_record_path, d_fps,
                 d_ts, d_clock, workers, threads, encs, d_nrec, d_queue, d_errors>>
  /\ UNCHANGED <<gstVars, estVars, gwVars>>

(* ----------------------------------------------- over a GStreamerBackend *)
\* The statements of a handler that follow a backend call touch only the
\* controller's fields; they run in the step after the call's last step.

GstUnchangedByCtl ==
  UNCHANGED <<g_pipeline, g_bus_thread, g_eos_event, g_active, g_recording, pipes,
              m_bus, g_fin, g_errors, g_msgs, g_budget>>

\* --- on_start_preview, line 98: self.backend.start_preview((w, h), fps)
CtlGstStartPreview ==
  /\ backend = "gst" /\ c_pc = "sp_start" /\ g_pcs[UI] = "idle"
  /\ GstCall
  /\ GstEnter("start_preview")
  /\ c_pc' = "sp_on_error"
  /\ GstUnchangedByCtl
  /\ UNCHANGED <<backend, g_err_cb, g_output_path, devVars, estVars, gwVars,
                 c_previewing, c_recording, c_last>>

\* --- on_start_preview, lines 100-125: self.backend.on_error(self._on_error),
\* then self.is_previewing = True whatever became of the pipeline
CtlGstOnError ==
  /\ backend = "gst" /\ c_pc = "sp_on_error" /\ g_pcs[UI] = "idle"
  /\ GstOnErrorBody
  /\ c_pc' = "idle"
  /\ c_previewing' = TRUE
  /\ c_last' = "start_preview:started"
  /\ GstUnchangedByCtl
  /\ UNCHANGED <<backend, g_stop_bus, g_output_path, g_pcs, g_op, g_calls, devVars,
                 estVars, gwVars, c_recording>>

\* --- on_toggle_recording over a GStreamerBackend, up to the backend call
CtlGstToggle ==
  /\ backend = "gst" /\ UiIdle
  /\ GstCall
  /\ IF ~c_previewing
     THEN /\ c_last' = "toggle:start_preview_first"
          /\ g_last' = "none"
          /\ UNCHANGED <<c_pc, g_output_path, g_op, g_stop_bus, g_pcs, g_fin, g_eos_event,
                         pipes>>
     ELSE IF ~c_recording
     THEN /\ GstStartRecordingBody
          /\ c_pc' = "tg_start"
          /\ UNCHANGED <<c_last, g_fin, g_eos_event, pipes>>
     ELSE /\ GstStopRecordingBody
          /\ c_pc' = "tg_stop"
          /\ UNCHANGED <<c_last, g_output_path>>
  /\ UNCHANGED <<backend, g_pipeline, g_bus_thread, g_err_cb, g_active, g_recording,
                 m_bus, g_errors, g_msgs, g_budget, devVars, estVars, gwVars,
                 c_previewing, c_recording>>

\* --- on_toggle_recording, lines 145-151 and 155-161: after the backend call
CtlGstToggleReturn ==
  /\ backend = "gst" /\ c_pc \in {"tg_start", "tg_stop"}
  /\ g_pcs[UI] = "idle" /\ g_last # "none"
  /\ c_pc' = "idle"
  /\ IF UiRaisedNow
     THEN /\ c_last' = "toggle:failed"
          /\ UNCHANGED c_recording
     ELSE /\ c_recording' = (c_pc = "tg_start")
          /\ c_last' = (IF c_pc = "tg_start" THEN "toggle:recording" ELSE "toggle:stopped")
  /\ g_last' = "none"
  /\ GstUnchangedByCtl
  /\ UNCHANGED <<backend, g_stop_bus, g_err_cb, g_output_path, g_pcs, g_op, g_calls,
                 devVars, estVars, gwVars, c_previewing>>

\* --- on_stop_all over a GStreamerBackend, up to the join of stop_all
CtlGstStopAll ==
  /\ backend = "gst" /\ UiIdle
  /\ GstCall
  /\ GstEnter("stop_all")
  /\ c_pc' = "sa_wait"
  /\ GstUnchangedByCtl
  /\ UNCHANGED <<backend, g_err_cb, g_output_path, devVars, estVars, gwVars,
                 c_previewing, c_recording, c_last>>

\* --- on_stop_all, lines 166-173: after stop_all
CtlGstStopAllReturn ==
  /\ backend = "gst" /\ c_pc = "sa_wait"
  /\ g_pcs[UI] = "idle" /\ g_last # "none"
  /\ IF UiRaisedNow THEN CtlStopAllRaised ELSE CtlStopped
  /\ g_last' = "none"
  /\ GstUnchangedByCtl
  /\ UNCHANGED <<backend, g_stop_bus, g_err_cb, g_output_path, g_pcs, g_op, g_calls,
                 devVars, estVars, gwVars>>

CtlNext ==
  \/ CtlConstruct
  \/ CtlStartPreviewRejected
  \/ CtlDevStartPreview
  \/ CtlDevOnError
  \/ CtlDevOnFrame
  \/ CtlDevToggle
  \/ CtlDevStopAll
  \/ CtlDevStopAllReturn
  \/ DevDispatch
  \/ \E w \in WorkerIds : WorkerOpen(w)
  \/ \E w \in WorkerIds : WorkerSetRunning(w)
  \/ \E w \in WorkerIds : WorkerLoopTest(w)
  \/ \E w \in WorkerIds : WorkerRead(w)
  \/ \E w \in WorkerIds : WorkerRelease(w)
  \/ \E w \in WorkerIds : WorkerDeleteLater(w)
  \/ \E w \in WorkerIds : ThreadFinish(w)
  \/ \E w \in WorkerIds : ThreadDeleteLater(w)
  \/ CtlGstStartPreview
  \/ CtlGstOnError
  \/ CtlGstToggle
  \/ CtlGstToggleReturn
  \/ CtlGstStopAll
  \/ CtlGstStopAllReturn
  \/ GstEosWaitReturn
  \/ SpClear
  \/ SpBuild
  \/ GstTail
  \/ \E c \in Ctx : TdJoin(c)
  \/ \E c \in Ctx : TdPipe(c)
  \/ \E c \in Ctx : TdNull(c)
  \/ \E c \in Ctx : TdDetach(c)
  \/ \E c \in Ctx : SaFields(c)
  \/ \E t \in PipeIds : MonStart(t)
  \/ \E t \in PipeIds : MonLoop(t)
  \/ \E t \in PipeIds : MonPop(t)
  \/ \E t \in PipeIds : MonStopAll(t)
  \/ \E p \in PipeIds, m \in Msgs : GstPost(p, m)

(* ======================================================================= *)
(*                        GstCaptureWorker (gst_worker.py)                  *)
(* ======================================================================= *)
\* run() is the slot of a worker thread; stop() is called from the UI thread;
\* the bus watch is dispatched by the GLib main loop inside run(), the appsink
\* callback by the pipeline's streaming thread.

InitGwIdle ==
  /\ w_pc = "start" /\ w_prefer = TRUE /\ w_desc = "none"
  /\ w_pipeline = "none" /\ w_loop = "none"
  /\ w_sigs = <<>> /\ w_bus = <<>>
  /\ w_stops = 0 /\ w_posted = 0 /\ w_samples = 0

\* GstCaptureWorker(..., prefer_libcamera, ...): both values of the flag
InitGw ==
  /\ w_pc = "start" /\ w_prefer \in BOOLEAN /\ w_desc = "none"
  /\ w_pipeline = "none" /\ w_loop = "none"
  /\ w_sigs = <<>> /\ w_bus = <<>>
  /\ w_stops = 0 /\ w_posted = 0 /\ w_samples = 0

\* A step of the GstCaptureWorker leaves the backends and the controller alone.
InGw == backend = "none" /\ UNCHANGED <<backend, devVars, gstVars, estVars, ctlVars, w_prefer>>

\* _build_pipeline_desc: the first candidate source whose test pipeline parses,
\* libcamerasrc first when prefer_libcamera, else the bare v4l2src fallback
BuildPipelineDesc(prefer, libOk, v4lOk) ==
  LET c == IF prefer THEN <<"libcamerasrc", "v4l2src device">>
                     ELSE <<"v4l2src device", "libcamerasrc">>
      ok == [x \in {"libcamerasrc", "v4l2src device"} |->
               IF x = "libcamerasrc" THEN libOk ELSE v4lOk]
  IN IF ok[c[1]] THEN c[1] ELSE IF ok[c[2]] THEN c[2] ELSE "v4l2src"

\* Gst.init(None); desc = self._build_pipeline_desc()
GwBuildDesc ==
  /\ InGw /\ w_pc = "start"
  /\ \E initOk \in BOOLEAN, libOk \in BOOLEAN, v4lOk \in BOOLEAN :
       IF initOk
       THEN /\ w_desc' = BuildPipelineDesc(w_prefer, libOk, v4lOk)
            /\ w_pc' = "parse"
       ELSE /\ w_pc' = "except"
            /\ UNCHANGED w_desc
  /\ UNCHANGED <<w_pipeline, w_loop, w_sigs, w_bus, w_stops, w_posted, w_samples>>

\* self._pipeline = Gst.parse_launch(desc): a new pipeline, or GLib.Error
GwParse ==
  /\ InGw /\ w_pc = "parse"
  /\ \E ok \in BOOLEAN :
       IF ok
       THEN w_pipeline' = "created" /\ w_pc' = "appsink"
       ELSE w_pc' = "except" /\ UNCHANGED w_pipeline
  /\ UNCHANGED <<w_desc, w_loop, w_sigs, w_bus, w_stops, w_posted, w_samples>>

\* a run() whose appsink test only reports the error and goes on to the finally
AfterAppsinkMissing_ErrorOnly == <<"error:appsink not found in pipeline.">>

\* if self._appsink is None: self.error.emit(...); self.finished.emit(); return
AfterAppsinkMissing == <<"error:appsink not found in pipeline.", "finished">>

\* self._appsink = self._pipeline.get_by_name("appsink0") and the test on it;
\* the return inside the try goes through the finally clause
GwAppsink ==
  /\ InGw /\ w_pc = "appsink"
  /\ \E found \in BOOLEAN :
       IF found
       THEN w_pc' = "wire" /\ UNCHANGED w_sigs
       ELSE w_pc' = "finally" /\ w_sigs' = w_sigs \o AfterAppsinkMissing
  /\ UNCHANGED <<w_desc, w_pipeline, w_loop, w_bus, w_stops, w_posted, w_samples>>

\* the connects, set_state(PLAYING), self._loop = GLib.MainLoop(); or an exception
GwWire ==
  /\ InGw /\ w_pc = "wire"
  /\ \E ok \in BOOLEAN :
       IF ok
       THEN w_pipeline' = "PLAYING" /\ w_loop' = "created" /\ w_pc' = "run"
       ELSE w_pc' = "except" /\ UNCHANGED <<w_pipeline, w_loop>>
  /\ UNCHANGED <<w_desc, w_sigs, w_bus, w_stops, w_posted, w_samples>>

\* self._loop.run() starts
GwLoopRun ==
  /\ InGw /\ w_pc = "run"
  /\ w_loop' = "running"
  /\ w_pc' = "looping"
  /\ UNCHANGED <<w_desc, w_pipeline, w_sigs, w_bus, w_stops, w_posted, w_samples>>

\* self._loop.run() returns, the loop having been quit
GwLoopReturn ==
  /\ InGw /\ w_pc = "looping" /\ w_loop = "quit"
  /\ w_pc' = "finally"
  /\ UNCHANGED <<w_desc, w_pipeline, w_loop, w_sigs, w_bus, w_stops, w_posted, w_samples>>

\* except Exception as e: self.error.emit(f"GStreamer init error: {e}")
GwExcept ==
  /\ InGw /\ w_pc = "except"
  /\ w_sigs' = Append(w_sigs, "error:GStreamer init error")
  /\ w_pc' = "finally"
  /\ UNCHANGED <<w_desc, w_pipeline, w_loop, w_bus, w_stops, w_posted, w_samples>>

\* finally: if self._pipeline: self._pipeline.set_state(Gst.State.NULL)
GwFinallyNull ==
  /\ InGw /\ w_pc = "finally"
  /\ w_pipeline' = (IF w_pipeline = "none" THEN "none" ELSE "NULL")
  /\ w_pc' = "emit_finished"
  /\ UNCHANGED <<w_desc, w_loop, w_sigs, w_bus, w_stops, w_posted, w_samples>>

\* finally: self.finished.emit(); run() returns
GwFinished ==
  /\ InGw /\ w_pc = "emit_finished"
  /\ w_sigs' = Append(w_sigs, "finished")
  /\ w_pc' = "done"
  /\ UNCHANGED <<w_desc, w_pipeline, w_loop, w_bus, w_stops, w_posted, w_samples>>

\* stop(): if self._loop and self._loop.is_running(): self._loop.quit()
LoopAfterStop == IF w_loop = "running" THEN "quit" ELSE w_loop

\* stop() called by the UI thread
GwStop ==
  /\ InGw /\ w_stops < MaxCalls
  /\ w_stops' = w_stops + 1
  /\ w_loop' = LoopAfterStop
  /\ UNCHANGED <<w_pc, w_desc, w_pipeline, w_sigs, w_bus, w_posted, w_samples>>

\* The playing pipeline posts a message on its bus.
GwPost(m) ==
  /\ InGw /\ w_pipeline = "PLAYING" /\ w_posted < MaxMsgs
  /\ w_posted' = w_posted + 1
  /\ w_bus' = Append(w_bus, m)
  /\ UNCHANGED <<w_pc, w_desc, w_pipeline, w_loop, w_sigs, w_stops, w_samples>>

\* _on_bus_message, dispatched by the running main loop
GwOnBusMessage ==
  /\ InGw /\ w_pc = "looping" /\ w_loop = "running" /\ w_bus # <<>>
  /\ LET m == Head(w_bus) IN
     /\ w_bus' = Tail(w_bus)
     /\ w_sigs' = (IF m = "ERROR" THEN Append(w_sigs, "error:bus") ELSE w_sigs)
     /\ w_loop' = (IF m \in {"ERROR", "EOS"} THEN LoopAfterStop ELSE w_loop)
  /\ UNCHANGED <<w_pc, w_desc, w_pipeline, w_stops, w_posted, w_samples>>

\* _on_new_sample, called by the playing pipeline's appsink
GwOnNewSample ==
  /\ InGw /\ w_pipeline = "PLAYING" /\ w_samples < MaxFrames
  /\ w_samples' = w_samples + 1
  /\ \E ok \in BOOLEAN :
       w_sigs' = Append(w_sigs, IF ok THEN "frameReady" ELSE "error:appsink error")
  /\ UNCHANGED <<w_pc, w_desc, w_pipeline, w_loop, w_bus, w_stops, w_posted>>

GwNext ==
  \/ GwBuildDesc
  \/ GwParse
  \/ GwAppsink
  \/ GwWire
  \/ GwLoopRun
  \/ GwLoopReturn
  \/ GwExcept
  \/ GwFinallyNull
  \/ GwFinished
  \/ GwStop
  \/ \E m \in Msgs : GwPost(m)
  \/ GwOnBusMessage
  \/ GwOnNewSample

(* ======================================================================= *)
(*                             specifications                               *)
(* ======================================================================= *)

vars == <<backend, devVars, gstVars, estVars, ctlVars, gwVars>>

\* The controller builds an OpenCVBackend ...
InitDev ==
  /\ backend = "dev" /\ InitDevFields /\ InitGstFields /\ InitEstIdle /\ InitCtl /\ InitGwIdle
  /\ g_budget = MaxGstCalls

\* ... or a GStreamerBackend.
InitGst ==
  /\ backend = "gst" /\ InitDevFields /\ InitGstFields /\ InitEstIdle /\ InitCtl /\ InitGwIdle
  /\ g_budget = MaxGstCalls

\* The same backend with a session one call longer.
InitGstLong ==
  /\ backend = "gst" /\ InitDevFields /\ InitGstFields /\ InitEstIdle /\ InitCtl /\ InitGwIdle
  /\ g_budget = MaxGstCalls + 1

\* _estimate_fps on an OpenCVBackend, for each requested fps and timestamp window
InitFps ==
  /\ backend = "dev" /\ InitDevFields /\ InitGstFields /\ InitEstInputs /\ InitCtl /\ InitGwIdle
  /\ g_budget = MaxGstCalls

SpecFps == InitFps /\ [][EstNext]_vars

SpecDev == InitDev /\ [][DevNext]_vars

SpecDevLong == InitDev /\ [][DevNextLong]_vars

\* Frames that have already arrived when a behaviour of SpecTs starts.
TsFilled == {TsMaxLen - 1}

\* The window after n arrivals: the serial numbers of the last min(n, 120).
LastArrivals(n) ==
  LET len == IF n < TsMaxLen THEN n ELSE TsMaxLen
  IN [i \in 1..len |-> n - len + i]

\* An OpenCVBackend whose preview has been running for a while: start_preview
\* was called, the worker opened the device and is in its read loop, and the
\* frames it emitted so far were all handled, none of them while recording.
InitTs ==
  /\ backend = "dev" /\ InitGstFields /\ InitEstIdle /\ InitCtl /\ InitGwIdle
  /\ g_budget = MaxGstCalls
  /\ d_active = TRUE /\ d_recording = FALSE
  /\ d_worker = 1 /\ d_thread = 1
  /\ d_writer = 0 /\ d_record_path = NoPath
  /\ d_fps = DefaultFps
  /\ \E n \in TsFilled : d_ts = LastArrivals(n) /\ d_clock = n
  /\ workers = [i \in WorkerIds |->
                  IF i = 1
                  THEN [NewWorker EXCEPT !.pc = "loop", !.running = TRUE,
                                         !.cap = "dshow", !.apis = ApisTried(TRUE)]
                  ELSE NewWorker]
  /\ threads = [i \in WorkerIds |->
                  IF i = 1 THEN [state |-> "running", quit |-> FALSE] ELSE NewThread]
  /\ encs = [i \in RecIds |-> NewEnc]
  /\ d_nrec = 0 /\ d_queue = <<>> /\ d_pc = "idle" /\ d_last = "none"
  /\ d_errors = <<>> /\ d_calls = 0 /\ cam_frames = 0

SpecTs == InitTs /\ [][DevNextLong]_vars

SpecGst == InitGst /\ [][GstNext]_vars

SpecGstLong == InitGstLong /\ [][GstNext]_vars

\* The application starts: no backend yet, the controller idle.
InitCtlSession ==
  /\ backend = "none" /\ InitDevFields /\ InitGstFields /\ InitEstIdle /\ InitCtl /\ InitGwIdle
  /\ g_budget = MaxGstCalls + 1

SpecCtl == InitCtlSession /\ [][CtlNext]_vars

\* A GstCaptureWorker is built and its run() started on a worker thread.
InitGwSession ==
  /\ backend = "none" /\ InitDevFields /\ InitGstFields /\ InitEstIdle /\ InitCtl
  /\ g_budget = MaxGstCalls
  /\ InitGw

SpecGw == InitGwSession /\ [][GwNext]_vars

(* ======================================================================= *)
(*                                 claims                                   *)
(* ======================================================================= *)

DevIdle == ~d_active /\ ~d_recording /\ d_worker = 0 /\ d_thread = 0

\* C1: OpenCVBackend: in every reachable state, whatever calls were made and
\* whatever frames arrived, _recording true implies _active true.
C1_DevRecordingImpliesActive == backend = "dev" => (d_recording => d_active)

\* C1 witness: a recording is on and a frame has opened its encoder.
C1_Witness == d_recording /\ d_active /\ d_writer # 0 /\ encs[d_writer].state = "open"

\* C2 (as claimed): GStreamerBackend: between calls, _recording true implies
\* _active true, also after a call whose pipeline failed to parse or to start.
C2_GstRecordingImpliesActive ==
  (backend = "gst" /\ g_pcs[UI] = "idle" /\ g_recording) => g_active

\* C3: OpenCVBackend: a start_recording call made while _active is false ends
\* with the error "Preview not active" and changes nothing: _recording stays
\* false, the stored path and the writer are as before, no encoder is created.
C3_StartRecordingInactive ==
  [][(DevStartRecording /\ ~d_active) =>
       /\ d_last' = "start_recording:Preview not active"
       /\ d_recording' = FALSE
       /\ UNCHANGED <<d_active, d_recording, d_worker, d_thread, d_writer,
                      d_record_path, d_fps, d_ts, d_nrec, encs, workers, threads>>]_vars

\* C3 witness: the call was refused after a session had been started and
\* stopped again.
C3_Witness ==
  /\ d_last = "start_recording:Preview not active"
  /\ ~d_active /\ ~d_recording /\ WorkersMade > 0

\* C4: OpenCVBackend: a start_preview call made while _active is true creates
\* no worker and no thread, keeps self._worker, self._thread and self._fps, and
\* leaves the session active.
C4_StartPreviewActiveNoop ==
  [][(DevStartPreview /\ d_active) =>
       /\ d_last' = "start_preview:already_active"
       /\ d_active'
       /\ UNCHANGED <<d_worker, d_thread, d_fps, workers, threads>>]_vars

\* C4 witness: start_preview returned "already active" with the first worker
\* still attached.
C4_Witness ==
  /\ d_last = "start_preview:already_active"
  /\ d_active /\ d_worker = 1 /\ WorkersMade = 1

\* C5 (as claimed): stop_all never ends with an exception, and when it has
\* returned the backend is Idle.
C5_StopAllLeavesIdle ==
  (backend = "dev" /\ d_last \in {"stop_all:done", "stop_all:done_timeout", "stop_all:raised"})
     => (d_last # "stop_all:raised" /\ DevIdle)

\* C6: GStreamerBackend: a stop_recording call made while _recording is false
\* returns at once: no EOS is sent, no pipeline is set to NULL or built, the
\* monitor thread and the stop flag are untouched, and _active, _output_path
\* and _pipeline are as before.
C6_StopRecordingIdleNoop ==
  [][(GstStopRecording /\ ~g_recording) =>
       /\ g_last' = "stop_recording:noop"
       /\ UNCHANGED <<g_pipeline, g_bus_thread, g_stop_bus, g_eos_event, g_active,
                      g_recording, g_output_path, pipes, m_bus, g_pcs, g_op>>]_vars

\* C6 witness: stop_recording returned as a no-op while a preview pipeline is playing.
C6_Witness ==
  /\ g_last = "stop_recording:noop"
  /\ g_active /\ g_pipeline # 0 /\ pipes[g_pipeline].state = "PLAYING"

StopRecFins == {"no_pipeline", "send_failed", "eos_arrived", "timeout"}

StopRecOutcomes(how) == {"stop_recording:" \o how \o ":" \o f : f \in StopRecFins}

StopRecReturned ==
  g_last \in (StopRecOutcomes("started") \cup StopRecOutcomes("parse_failed")
                \cup StopRecOutcomes("play_failed"))

\* Some monitor thread has popped a fatal ERROR (it is in, or has left, its stop_all).
FatalHandled ==
  \E t \in PipeIds : g_pcs[t] \in {"sa_begin", "td_join", "td_pipe", "td_null",
                                   "td_detach", "sa_fields", "stopped_all", "raised"}

PreviewOnly ==
  /\ g_active /\ ~g_recording /\ g_output_path = NoPath
  /\ g_pipeline # 0
  /\ pipes[g_pipeline].kind = "preview" /\ pipes[g_pipeline].state = "PLAYING"
  /\ g_bus_thread = g_pipeline

C8_FailedStartPreviewInactive ==
  g_last \in {"start_preview:parse_failed", "start_preview:play_failed"}
     => (~g_active /\ g_pipeline = 0)

\* C9 (as claimed, in the form a finite run decides): while the UI makes no
\* call, the step by which a monitor thread that popped a fatal ERROR ends
\* leaves the session torn down: _pipeline None, _active false, _recording false.
C9_FatalErrorTearsDown ==
  [][\A t \in PipeIds :
        (g_pcs[t] \in {"sa_begin", "td_join", "td_pipe", "td_null", "td_detach", "sa_fields"}
           /\ g_pcs'[t] \in Terminated /\ g_pcs[UI] = "idle")
        => (g_pipeline' = 0 /\ ~g_active' /\ ~g_recording')]_vars

\* The current worker gave up opening the device: error and finished were emitted.
OpenFailed(w) == workers[w].pc \in {"done", "deleted"} /\ workers[w].cap = "none"

\* C10 (as claimed): once the current worker has signalled that the device
\* could not be opened, _active is false.
C10_OpenFailureLeavesInactive ==
  \A w \in WorkerIds : (d_worker = w /\ OpenFailed(w)) => ~d_active

\* The signals worker w has emitted, as a set.
Emitted(w) == {workers[w].sigs[i] : i \in 1..Len(workers[w].sigs)}

\* A read of worker w failed.
ReadFailed(w) == "error:Failed to read frame from camera." \in Emitted(w)

\* C11 (as claimed, in the form a finite run decides): once the worker whose
\* read failed has finished, its thread has been deleted and every queued slot
\* has run, with no stop_all by the UI, the session is torn down: _active
\* false, _recording false and no encoder left open.
C11_ReadFailureTearsDown ==
  \A w \in WorkerIds :
     (/\ d_worker = w /\ ReadFailed(w)
      /\ workers[w].pc = "deleted" /\ threads[w].state = "deleted"
      /\ d_queue = <<>> /\ d_pc = "idle")
     => (/\ ~d_active /\ ~d_recording
         /\ \A r \in RecIds : encs[r].state # "open")

\* The frame slot is about to run for a recording to an .mp4 path whose
\* encoder is not open yet.
FirstMp4Frame ==
  /\ DevDispatch /\ Head(d_queue).kind = "frame"
  /\ d_recording /\ d_writer = 0 /\ Lower(d_record_path.ext) = ".mp4"

\* C12: OpenCVBackend: on a frame of a recording to an .mp4 path with no
\* encoder yet, mp4v is tried first and avc1 only after mp4v failed to open;
\* the first candidate that opens becomes the encoder; when both fail,
\* _recording stays true, _writer stays None and the frame is not written.
C12_EncoderFallback ==
  [][FirstMp4Frame =>
       LET e == encs'[d_nrec]
           t == e.tried
       IN /\ Len(t) \in {1, 2}
          /\ t[1].cc = "mp4v"
          /\ Len(t) = 2 => (~t[1].opened /\ t[2].cc = "avc1")
          /\ Len(t) = 1 => t[1].opened
          /\ t[Len(t)].opened
               => (d_writer' = d_nrec /\ e.state = "open" /\ e.codec = t[Len(t)].cc)
          /\ ~t[Len(t)].opened
               => (d_recording' /\ d_writer' = 0 /\ e.state = "none" /\ e.written = 0)]_vars

\* C12 witness: mp4v failed to open and avc1 became the encoder.
C12_Witness ==
  /\ d_recording /\ d_writer # 0
  /\ encs[d_writer].codec = "avc1" /\ encs[d_writer].state = "open"
  /\ Len(encs[d_writer].tried) = 2

\* C15: CaptureWorker.run: CAP_MSMF is tried only after CAP_DSHOW failed to
\* open; a worker that opened the device on the second API goes on to the read
\* loop having emitted nothing; a worker that opened on neither API has emitted
\* exactly the error 'Could not open camera device.' and then finished, is done,
\* and stays so: it never reaches a read or a frameReady emission.
C15_OpenFallback ==
  [][\A w \in WorkerIds :
       /\ (workers[w].pc = "start" /\ workers'[w].pc # "start") =>
            /\ workers'[w].apis[1] = "CAP_DSHOW"
            /\ Len(workers'[w].apis) = 2 <=> workers'[w].cap # "dshow"
            /\ Len(workers'[w].apis) = 2 => workers'[w].apis[2] = "CAP_MSMF"
            /\ workers'[w].cap = "msmf"
                 => (workers'[w].pc = "opened" /\ workers'[w].sigs = <<>>)
            /\ workers'[w].cap = "none" => workers'[w].pc = "done"
       /\ (workers[w].pc = "opened" /\ workers'[w].pc # "opened")
            => (workers'[w].pc = "loop" /\ workers'[w].running)
       /\ OpenFailed(w)' =>
            workers'[w].sigs = <<"error:Could not open camera device.", "finished">>
       /\ OpenFailed(w) => OpenFailed(w)']_vars

\* C15 witness: a worker that opened the device on the second API is reading.
C15_Witness ==
  \E w \in WorkerIds :
     /\ workers[w].apis = <<"CAP_DSHOW", "CAP_MSMF">> /\ workers[w].cap = "msmf"
     /\ workers[w].pc = "read" /\ workers[w].sigs = <<>>

\* C16 (as claimed): when stop_recording, called while recording, has returned,
\* _recording is false, _writer is None and _record_path is None.
C16_StopRecordingClears ==
  d_last = "stop_recording:stopped"
     => (~d_recording /\ d_writer = 0 /\ d_record_path = NoPath)

\* C17 (as claimed): whenever a stop_all call has ended, from whatever state it
\* was made, _worker and _thread are None, _active and _recording are false,
\* _writer is None and no encoder is left open.
C17_StopAllFromAnyState ==
  (d_last \in {"stop_all:done", "stop_all:done_timeout", "stop_all:raised"})
     => (/\ d_worker = 0 /\ d_thread = 0 /\ ~d_active /\ ~d_recording /\ d_writer = 0
         /\ \A r \in RecIds : encs[r].state # "open")

\* stop() has been called on worker w: stop_all is waiting for its thread, or
\* has returned and dropped the worker.
StopRequested(w) ==
  workers[w].pc # "none" /\ (d_worker # w \/ d_pc = "stop_all_wait")

\* C18 (as claimed, in the form a finite run decides): once stop() has been
\* called on a worker, whenever it was called, the worker's next loop test
\* leaves the loop: it does not go on to another read.
C18_StopLeavesLoop ==
  [][\A w \in WorkerIds :
       (StopRequested(w) /\ workers[w].pc = "loop") => workers'[w].pc # "read"]_vars

\* Worker w holds the capture device open.
HasDevice(w) == workers[w].cap \in {"dshow", "msmf"}

\* C19 (as claimed): no two CaptureWorkers of the backend hold the device open
\* at the same moment.
C19_OneOpenDevice ==
  \A w1 \in WorkerIds, w2 \in WorkerIds :
     (w1 # w2) => ~(HasDevice(w1) /\ HasDevice(w2))

\* C13: _estimate_fps: for a window of fewer than 15 timestamps, whatever the
\* timestamps are, and for a window of 15 or more whose newest and oldest
\* timestamps are equal, the result is the requested fps (30 when the requested
\* fps was not positive).
C13_FallbackToRequested ==
  (e_pc = "done" /\ (Len(e_ts) < 15 \/ e_ts[Len(e_ts)] = e_ts[1]))
     => e_out = (IF e_req > 0 THEN e_req ELSE 30)

\* C13 witness: 14 timestamps spread over a positive span, requested fps 24.
C13_Witness ==
  /\ e_pc = "done" /\ Len(e_ts) = 14 /\ e_ts[14] > e_ts[1]
  /\ e_req = 24 /\ e_out = 24

\* |rate - c| < 2.0 for the window's rate (count - 1) / (newest - oldest)
NearRate(c) ==
  LET dt == e_ts[Len(e_ts)] - e_ts[1]
      num == (Len(e_ts) - 1) * TicksPerSec
  IN Abs(num - c * dt) < 2 * dt

\* C14: _estimate_fps: for a window of at least 15 timestamps with newest >
\* oldest, the result is the first of 30, 25, 24, 20, 15, 12, 10 within 2.0 of
\* the rate, and when there is none, the integer nearest to the rate, or 1 if
\* that is 0; the result is an integer >= 1.
C14_SnapOrRound ==
  (e_pc = "done" /\ Len(e_ts) >= 15 /\ e_ts[Len(e_ts)] > e_ts[1]) =>
     LET dt == e_ts[Len(e_ts)] - e_ts[1]
         num == (Len(e_ts) - 1) * TicksPerSec
         order == <<30, 25, 24, 20, 15, 12, 10>>
         hits == {i \in 1..7 : NearRate(order[i])}
     IN /\ e_out \in Nat /\ e_out >= 1
        /\ hits # {} => \E i \in hits : e_out = order[i] /\ \A j \in hits : i <= j
        /\ hits = {} => (2 * Abs(e_out * dt - num) <= dt \/ (e_out = 1 /\ 2 * num <= dt))

\* C14 witness: the result is 25 although the rate is nearer to 24.
C14_Witness ==
  /\ e_pc = "done" /\ Len(e_ts) >= 15 /\ e_ts[Len(e_ts)] > e_ts[1]
  /\ e_out = 25
  /\ LET dt == e_ts[Len(e_ts)] - e_ts[1]
         num == (Len(e_ts) - 1) * TicksPerSec
     IN Abs(num - 24 * dt) < Abs(num - 25 * dt)

\* C20 (as claimed): no two pipelines of the backend are PLAYING at the same
\* moment.
C20_OnePipelinePlaying ==
  \A p1 \in PipeIds, p2 \in PipeIds :
     (p1 # p2) => ~(pipes[p1].state = "PLAYING" /\ pipes[p2].state = "PLAYING")

\* C21 (as claimed): a pipeline through which stop_recording's end-of-stream event
\* was sent goes to NULL only in the step by which _send_eos_and_wait returns
\* from its wait (the notification was signalled or the 4 s passed), and that
\* step goes on with stop_recording: it does not end with an exception.
C21_NullOnlyAfterEosWait ==
  [][/\ \A p \in PipeIds :
          (pipes[p].eos /\ pipes[p].state = "PLAYING" /\ pipes'[p].state = "NULL")
             => (g_pcs[UI] = "eos_wait" /\ g_pipeline = p)
     /\ (g_pcs[UI] = "eos_wait" /\ g_pcs'[UI] # "eos_wait")
             => g_pcs'[UI] = "td_join"]_vars

\* C22 (as claimed, for the explicit stop path): in every interleaving of the
\* monitor thread's stop_all with the UI thread's stop_all, stop_recording and
\* _start_pipeline, the UI thread's call does not end with an exception: it
\* never calls set_state on a self._pipeline that the monitor has set to None.
C22_UiNeverRaises == ~UiRaisedNow

\* C23 (as claimed): a monitor thread leaves its polling loop only because the
\* loop test found _stop_bus set or because the message it popped was a fatal
\* ERROR (it then runs the error branch); popping an end-of-stream, warning or
\* state-changed message does not end it.
C23_MonitorLifetime ==
  [][\A t \in PipeIds :
       (g_pcs[t] \in {"loop", "pop"} /\ g_pcs'[t] \notin {"loop", "pop"})
          => \/ g_pcs[t] = "loop" /\ g_stop_bus
             \/ g_pcs[t] = "pop" /\ g_pcs'[t] = "sa_begin"]_vars

\* on_start_preview has run to its end over a GStreamerBackend whose pipeline
\* failed to parse or to reach PLAYING: no monitor thread was started.
GstStartFailed ==
  /\ backend = "gst" /\ c_pc = "idle" /\ c_last = "start_preview:started"
  /\ g_calls = 1 /\ g_pcs[1] = "none"

\* on_start_preview has run to its end over an OpenCVBackend whose worker could
\* not open the device, and the UI thread has run every queued slot.
DevOpenFailed ==
  /\ backend = "dev" /\ c_pc = "idle" /\ c_last # "none"
  /\ OpenFailed(1) /\ d_queue = <<>>

\* C24 (as claimed): after on_start_preview (backend built, start_preview,
\* then on_error), a device-open failure of the capture thread and a pipeline
\* parse or start failure have each been passed to AppController._on_error
\* exactly once.
C24_FatalReportedOnce ==
  /\ DevOpenFailed => d_errors = <<"Could not open camera device.">>
  /\ GstStartFailed => Len(g_errors) = 1

\* A fatal-to-stream error has been passed to AppController._on_error.
StreamErrorReported ==
  \/ \E i \in 1..Len(d_errors) : d_errors[i] = "Failed to read frame from camera."
  \/ \E i \in 1..Len(g_errors) : g_errors[i] = "GStreamer ERROR"

\* C25 (as claimed): once a capture read failure or a fatal bus error has been
\* reported to the controller, a Start Preview request is not rejected as
\* 'Preview already running': between handlers is_previewing and is_recording
\* are false by then.
C25_UiReflectsStopped ==
  [][StreamErrorReported =>
       /\ ~CtlStartPreviewRejected
       /\ (c_pc = "idle" /\ c_pc' # "idle") => (~c_previewing /\ ~c_recording)]_vars

\* C26: CaptureWorker.run: a worker whose read failed has emitted exactly one
\* 'Failed to read frame from camera.' error and is past its loop for good (no
\* further read, so no further frame); until it releases the device it has
\* emitted nothing else, and finished comes with the release, after the error.
C26_ReadFailureEndsRun ==
  \A w \in WorkerIds :
     ReadFailed(w) =>
       \/ /\ workers[w].sigs = <<"error:Failed to read frame from camera.">>
          /\ workers[w].pc = "release" /\ HasDevice(w)
       \/ /\ workers[w].sigs = <<"error:Failed to read frame from camera.", "finished">>
          /\ workers[w].pc \in {"done", "deleted"} /\ workers[w].cap = "released"

\* C26 witness: the only worker delivered a frame, then a read failed, and it
\* has released the device and emitted finished.
C26_Witness ==
  /\ WorkersMade = 1 /\ cam_frames = 1
  /\ workers[1].sigs = <<"error:Failed to read frame from camera.", "finished">>
  /\ workers[1].cap = "released"

\* stop() was called on worker w while its read loop was running: w is in the
\* loop (line 37 is behind it) with _running false.
StoppedInLoop(w) == workers[w].pc \in {"loop", "read"} /\ ~workers[w].running

\* C27: CaptureWorker: once stop() has been called while the read loop is
\* running, the flag stays false, the read in flight (if any) is followed by
\* the loop test, and the loop test leads to no further read: at most the frame
\* of the read in flight is still emitted.
C27_StopBoundsFrames ==
  [][\A w \in WorkerIds :
       StoppedInLoop(w) =>
         /\ ~workers'[w].running
         /\ workers[w].pc = "loop" => workers'[w].pc \in {"loop", "release"}
         /\ workers[w].pc = "read" => workers'[w].pc \in {"read", "loop", "release"}]_vars

\* C27 witness: a worker that delivered a frame has left its loop through the
\* loop test, because of stop() and not of a failed read.
C27_Witness ==
  \E w \in WorkerIds :
     /\ workers[w].pc = "release" /\ ~workers[w].running /\ workers[w].sigs = <<>>
     /\ cam_frames = 1

\* Every encoder candidate failed to open on the last frame of the current
\* recording: _recording is true, _writer is None, and the last
\* _open_writer_for_frame tried both candidates without success.
AllCandidatesFailed ==
  /\ d_recording /\ d_writer = 0 /\ d_nrec > 0
  /\ Len(encs[d_nrec].tried) = 2
  /\ ~encs[d_nrec].tried[2].opened

\* C28: OpenCVBackend: once every encoder candidate has failed to open on a
\* frame of a recording, no step writes a frame to any encoder and no encoder
\* becomes the writer while that recording lasts (until stop_recording or
\* stop_all), and _active stays true meanwhile.
C28_FramesDroppedAfterFailure ==
  [][AllCandidatesFailed =>
       /\ d_active
       /\ \A r \in RecIds : encs'[r].written = encs[r].written
       /\ d_recording' => (d_writer' = 0 /\ d_active')]_vars

\* C29: OpenCVBackend lazy encoder open: start_recording stores the path,
\* leaves _writer None and opens nothing; an encoder is opened (or an open
\* attempted) only by the frame slot, on a frame delivered while _recording is
\* true and _writer is None, for the current recording; while an encoder is
\* open, a frame attempts no further open and does not reset it.
C29_LazyOpen ==
  [][/\ d_nrec' # d_nrec =>
          /\ d_nrec' = d_nrec + 1 /\ d_recording' /\ d_writer' = 0
          /\ d_record_path' # NoPath /\ encs' = encs
          /\ encs[d_nrec'] = NewEnc
     /\ \A r \in RecIds :
          (encs'[r].tried # encs[r].tried \/ (encs'[r].state = "open" /\ encs[r].state # "open"))
             => /\ d_pc = "idle" /\ d_queue # <<>> /\ Head(d_queue).kind = "frame"
                /\ d_recording /\ d_writer = 0 /\ r = d_nrec
                /\ encs'[r].state = "open" <=> d_writer' = r
     /\ (d_recording /\ d_writer # 0 /\ d_recording') =>
          /\ d_writer' = d_writer
          /\ encs'[d_writer].tried = encs[d_writer].tried
          /\ encs'[d_writer].codec = encs[d_writer].codec
          /\ encs'[d_writer].state = "open"
          /\ encs'[d_writer].written >= encs[d_writer].written]_vars

\* C29 witness: the encoder opened on the first frame of a recording has
\* taken the second frame too.
C29_Witness ==
  /\ d_recording /\ d_writer # 0 /\ Len(d_ts) = 2
  /\ encs[d_writer].state = "open" /\ encs[d_writer].written = 2

\* A start_recording call has just returned (or raised).
StartRecordingCalled ==
  d_last' \in {"start_recording:started", "start_recording:already_recording",
               "start_recording:Preview not active"}

\* C30: OpenCVBackend: start_recording called while already recording is a
\* no-op: the stored output path is not replaced, the encoder (open or not yet
\* open) is neither closed nor reset, and the recording goes on.
C30_StartRecordingTwiceNoOp ==
  [][(d_recording /\ StartRecordingCalled) =>
       /\ d_last' = "start_recording:already_recording"
       /\ d_record_path' = d_record_path
       /\ d_writer' = d_writer /\ encs' = encs
       /\ d_recording' /\ d_nrec' = d_nrec /\ d_active' = d_active]_vars

\* C30 witness: start_recording has returned early on a recording whose
\* encoder is open and has a frame written.
C30_Witness ==
  /\ d_last = "start_recording:already_recording"
  /\ d_recording /\ d_writer # 0 /\ d_record_path # NoPath
  /\ encs[d_writer].state = "open" /\ encs[d_writer].written = 1

\* The UI thread's loop is delivering a frame to _on_frame_internal.
FrameDelivered ==
  /\ d_pc = "idle" /\ d_queue # <<>> /\ Head(d_queue).kind = "frame"
  /\ d_queue' = Tail(d_queue)

\* The write() of this step was made on encoder r and raised.
WriteRaisedOn(r) ==
  /\ encs'[r].wlog # <<>> /\ ~encs'[r].wlog[Len(encs'[r].wlog)]
  /\ encs'[r].wlog # encs[r].wlog

\* The last write() on the current encoder raised.
LastWriteRaised ==
  /\ d_recording /\ d_writer # 0
  /\ encs[d_writer].wlog # <<>> /\ ~encs[d_writer].wlog[Len(encs[d_writer].wlog)]

\* C31: OpenCVBackend: a write() that raises on a frame does not stop the
\* session: after that frame _active and _recording are still true, _writer is
\* the same (still open) encoder and _record_path is unchanged; and the next
\* frame delivered is passed to that same encoder again.
C31_WriteFailureKeepsSession ==
  [][FrameDelivered =>
       /\ \A r \in RecIds :
            WriteRaisedOn(r) =>
              /\ d_active /\ d_active' /\ d_recording /\ d_recording'
              /\ d_writer \in {0, r} /\ d_writer' = r
              /\ encs'[r].state = "open"
              /\ d_record_path' = d_record_path
       /\ LastWriteRaised =>
              /\ d_writer' = d_writer
              /\ Len(encs'[d_writer].wlog) = Len(encs[d_writer].wlog) + 1]_vars

\* C31 witness: the write of one frame raised and the next frame was written
\* by the same encoder, the session still previewing and recording.
C31_Witness ==
  /\ d_active /\ d_recording /\ d_writer # 0
  /\ encs[d_writer].state = "open" /\ encs[d_writer].wlog = <<FALSE, TRUE>>

\* The window holds the arrivals (serial numbers up to d_clock) of the last
\* min(n, 120) frames handled, oldest first.
WindowIsLastArrivals == d_ts = LastArrivals(d_clock)

\* C32: OpenCVBackend TimestampWindow: d_clock frames having been handled
\* (each one stamped with its serial number, recording or not), the window
\* never holds more than 120 entries and holds exactly the arrivals of the most
\* recent min(d_clock, 120) of them, in arrival order: every frame appended
\* one entry and, the window full, the oldest entry was evicted.
C32_TimestampWindow == Len(d_ts) <= TsMaxLen /\ WindowIsLastArrivals

\* C32 witness: the window is full and has evicted its oldest entry, on a
\* frame handled while recording.
C32_Witness ==
  /\ Len(d_ts) = TsMaxLen /\ d_ts[1] = 2 /\ d_ts[TsMaxLen] = TsMaxLen + 1
  /\ d_recording /\ d_writer # 0

\* An on_frame or on_error call has just returned (or raised).
SubscribeCalled ==
  d_last' \in {"on_error:no_worker", "on_error:raised", "on_error:connected",
               "on_frame:no_worker", "on_frame:raised", "on_frame:connected"}

\* C33: OpenCVBackend subscriptions are bound to the current worker: on_frame
\* and on_error called while _worker is None register nothing; a worker comes
\* into being with no callback connected, whatever was connected to earlier
\* workers; a callback gets connected to a worker only by an on_frame/on_error
\* call made while that worker is the current one; and an error is queued for
\* the callback only by a worker the callback is connected to.
C33_SubscriptionsPerWorker ==
  [][/\ (d_worker = 0 /\ SubscribeCalled) =>
          /\ workers' = workers /\ d_queue' = d_queue
          /\ d_last' \in {"on_error:no_worker", "on_frame:no_worker"}
     /\ \A w \in WorkerIds :
          /\ (workers[w].pc = "none" /\ workers'[w].pc # "none") =>
                (~workers'[w].errsub /\ ~workers'[w].framesub /\ d_worker' = w)
          /\ (~workers[w].errsub /\ workers'[w].errsub) =>
                (d_worker = w /\ d_last' = "on_error:connected")
          /\ (~workers[w].framesub /\ workers'[w].framesub) =>
                (d_worker = w /\ d_last' = "on_frame:connected")
     /\ (Len(d_queue') > Len(d_queue) /\ d_queue'[Len(d_queue')].kind = "error") =>
          workers[d_queue'[Len(d_queue')].w].errsub]_vars

\* C33 witness: the error callback was connected to the first session's
\* worker; after stop_all and a new start_preview the second worker failed to
\* open the device and emitted its error, and nothing reached the callback.
C33_Witness ==
  /\ WorkersMade = 2 /\ d_worker = 2
  /\ workers[1].errsub /\ ~workers[2].errsub
  /\ "error:Could not open camera device." \in Emitted(2)
  /\ d_errors = <<>>
  /\ \A i \in 1..Len(d_queue) : d_queue[i].kind # "error"

\* Monitor thread t takes the WARNING at the head of its bus.
PopsWarning(t) ==
  /\ g_pcs[t] = "pop" /\ g_pcs'[t] # "pop"
  /\ pipes[m_bus[t]].bus # <<>> /\ Head(pipes[m_bus[t]].bus) = "WARNING"

\* C34: GStreamerBackend: a WARNING bus message is non-fatal: the monitor's
\* step that handles it reports nothing to the error callback, leaves _active,
\* _recording, _output_path and _pipeline (and the pipeline's state) as they
\* are, and takes the monitor back to its loop test, not into stop_all.
C34_WarningNonFatal ==
  [][\A t \in PipeIds :
       PopsWarning(t) =>
         /\ g_errors' = g_errors
         /\ g_active' = g_active /\ g_recording' = g_recording
         /\ g_output_path' = g_output_path /\ g_pipeline' = g_pipeline
         /\ g_stop_bus' = g_stop_bus /\ g_eos_event' = g_eos_event
         /\ pipes'[m_bus[t]].state = pipes[m_bus[t]].state
         /\ pipes'[m_bus[t]].warned
         /\ g_pcs'[t] = "loop"]_vars

\* C34 witness: the monitor of the attached pipeline has logged a warning and
\* is polling again, the pipeline still playing and nothing reported.
C34_Witness ==
  \E t \in PipeIds :
     /\ g_pcs[t] = "pop" /\ m_bus[t] = g_pipeline
     /\ pipes[g_pipeline].warned /\ pipes[g_pipeline].state = "PLAYING"
     /\ g_active /\ g_errors = <<>>

\* C35 (as claimed): GStreamerBackend: a playing recording pipeline is set to
\* NULL only after an end-of-stream event was sent through it, whichever
\* operation tears it down.
C35_RecordingEosBeforeNull ==
  [][\A p \in PipeIds :
       (pipes[p].kind = "record" /\ pipes[p].state = "PLAYING" /\ pipes'[p].state = "NULL")
          => pipes[p].eos]_vars

\* The attached pipeline is a running recording graph.
RecordingGraphRuns ==
  /\ g_pipeline # 0
  /\ pipes[g_pipeline].kind = "record" /\ pipes[g_pipeline].state = "PLAYING"

\* C36 (as claimed): GStreamerBackend: whenever a public operation has
\* returned (the UI thread is in no backend call), _recording is true exactly
\* when the attached running pipeline is the recording graph.
C36_RecordingFlagMatchesGraph ==
  (g_pcs[UI] = "idle" /\ g_calls > 0) => (g_recording <=> RecordingGraphRuns)

\* Between two handlers: an encoder is attached only while recording, and an
\* encoder that is open is the attached one.
WriterOnlyWhileRecording ==
  /\ ~d_recording => d_writer = 0
  /\ \A r \in RecIds : encs[r].state = "open" => (d_recording /\ d_writer = r)

\* C37: OpenCVBackend: however the queued frame handler interleaves with
\* stop_recording and stop_all, whenever _recording is false _writer is None;
\* an open encoder is always the attached one; the step that detaches an
\* encoder releases it; and a released encoder is never touched again
\* (released exactly once, never written or reopened).
C37_WriterOnlyWhileRecording ==
  [][/\ WriterOnlyWhileRecording /\ WriterOnlyWhileRecording'
     /\ \A r \in RecIds :
          /\ (d_writer = r /\ d_writer' # r) =>
                (encs[r].state = "open" /\ encs'[r].state = "released")
          /\ (encs[r].state # "released" /\ encs'[r].state = "released") => d_writer = r
          /\ encs[r].state = "released" => encs'[r] = encs[r]]_vars

\* C37 witness: stop_recording (or stop_all) has released and detached the
\* encoder that took a frame, while a further frame emitted by the worker is
\* still queued for the handler.
C37_Witness ==
  /\ ~d_recording /\ d_writer = 0
  /\ encs[1].state = "released" /\ encs[1].written = 1
  /\ d_queue # <<>> /\ Head(d_queue).kind = "frame"

\* How many times run() has emitted finished.
FinishedEmitted(sigs) == Cardinality({i \in 1..Len(sigs) : sigs[i] = "finished"})

\* C38 (as claimed): GstCaptureWorker.run emits finished exactly once per run
\* on every exit path: never a second time, once when run() has returned, and
\* with the pipeline it created (if any) already set to NULL.
C38_FinishedOnce ==
  [][/\ FinishedEmitted(w_sigs') <= 1
     /\ w_pc' = "done" => FinishedEmitted(w_sigs') = 1
     /\ FinishedEmitted(w_sigs') > FinishedEmitted(w_sigs)
          => w_pipeline \in {"none", "NULL"}]_vars

====
